---- MODULE Spec2Model ----
(***************************************************************************)
(* LR table generator and shift-reduce driver of yalp.                     *)
(*                                                                         *)
(* The model follows LrTable::build (graph construction by work list, one  *)
(* table row per item set) and LrParser::parse (the shift-reduce loop).    *)
(* State ids and rule ids are 0-based as in the source; TLA+ sequences are *)
(* 1-based, so state i is sets[i + 1] and rule r is rules[r + 1].          *)
(***************************************************************************)
EXTENDS Naturals, Integers, Sequences, FiniteSets, TLC

(***************************************************************************)
(* Bounds of the model.                                                    *)
(***************************************************************************)
\* longest token sequence enumerated for a parse (the fixed scenario
\* inputs are added to the enumeration whatever their length)
MaxInputLen == 2
\* the longest token sequence, other than the tests' inputs, given to each
\* of two calls of parse that run over one table
MaxPeerInputLen == 1
\* the most calls (declarations of symbols and of rules) made on a grammar
\* under construction, and the most symbols given to ConstGrammar::new
MaxDeclarations == 3

(***************************************************************************)
(* Symbols.                                                                *)
(***************************************************************************)
START == "<start>"
EOS == "<eos>"
EPS == "<eps>"

\* an Option that is None: of a symbol id, of a symbol, of an item
None == "<none>"
Sym(id, kind) == [id |-> id, kind |-> kind]
NoSymbol == Sym(None, "None")
NoItem == [rule |-> -1, position |-> 0, lookaheads |-> << >>]

Symbol_start == Sym(START, "Start")
Symbol_eos == Sym(EOS, "EOS")
Symbol_epsilon == Sym(EPS, "Epsilon")
Symbol_term(id) == Sym(id, "Terminal")
Symbol_nterm(id) == Sym(id, "NonTerminal")

RuleDef(lhs, rhs) == [lhs |-> lhs, rhs |-> rhs]

(***************************************************************************)
(* Grammars: the two fixtures of the test suites and an ambiguous grammar  *)
(* whose item sets hold a shift and a reduction on the same terminal.      *)
(***************************************************************************)
FIXTURE_LR1_GRAMMAR ==
    [symbols |-> << Symbol_start, Symbol_eos, Symbol_epsilon,
                    Symbol_term("("), Symbol_term(")"), Symbol_term("n"),
                    Symbol_term("+"), Symbol_nterm("E"), Symbol_nterm("T") >>,
     rules |-> << RuleDef(START, <<"E", EOS>>),
                  RuleDef("E", <<"(", "E", ")">>),
                  RuleDef("E", <<"T">>),
                  RuleDef("T", <<"n">>),
                  RuleDef("T", <<"+", "T">>),
                  RuleDef("T", <<"T", "+", "n">>) >>]

FIXTURE_LR0_GRAMMAR ==
    [symbols |-> << Symbol_start, Symbol_eos, Symbol_epsilon,
                    Symbol_term("0"), Symbol_term("1"), Symbol_term("+"),
                    Symbol_term("*"), Symbol_nterm("E"), Symbol_nterm("B") >>,
     rules |-> << RuleDef(START, <<"E", EOS>>),
                  RuleDef("E", <<"E", "*", "B">>),
                  RuleDef("E", <<"E", "+", "B">>),
                  RuleDef("E", <<"B">>),
                  RuleDef("B", <<"0">>),
                  RuleDef("B", <<"1">>) >>]

AMBIGUOUS_GRAMMAR ==
    [symbols |-> << Symbol_start, Symbol_eos, Symbol_epsilon,
                    Symbol_term("n"), Symbol_term("+"), Symbol_nterm("E") >>,
     rules |-> << RuleDef(START, <<"E", EOS>>),
                  RuleDef("E", <<"E", "+", "E">>),
                  RuleDef("E", <<"n">>) >>]

\* a grammar with a state whose kernel holds two exhausted items
REDUCE_REDUCE_GRAMMAR ==
    [symbols |-> << Symbol_start, Symbol_eos, Symbol_epsilon,
                    Symbol_term("n"), Symbol_nterm("S"), Symbol_nterm("A"),
                    Symbol_nterm("B") >>,
     rules |-> << RuleDef(START, <<"S", EOS>>),
                  RuleDef("S", <<"A">>),
                  RuleDef("S", <<"B">>),
                  RuleDef("A", <<"n">>),
                  RuleDef("B", <<"n">>) >>]

\* a grammar with a rule whose RHS is a non-terminal followed by a
\* non-terminal, and a rule declared with an empty RHS (Grammar::add_rule
\* stores <eps> as its only RHS symbol)
SEQUENCE_GRAMMAR ==
    [symbols |-> << Symbol_start, Symbol_eos, Symbol_epsilon,
                    Symbol_term("a"), Symbol_term("b"), Symbol_nterm("S"),
                    Symbol_nterm("A"), Symbol_nterm("B") >>,
     rules |-> << RuleDef(START, <<"S", EOS>>),
                  RuleDef("S", <<"A", "B">>),
                  RuleDef("A", <<"a">>),
                  RuleDef("B", <<"b">>),
                  RuleDef("B", <<EPS>>) >>]

\* a grammar whose unit rules A -> B and B -> A derive each other
CYCLIC_GRAMMAR ==
    [symbols |-> << Symbol_start, Symbol_eos, Symbol_epsilon,
                    Symbol_term("n"), Symbol_nterm("A"), Symbol_nterm("B") >>,
     rules |-> << RuleDef(START, <<"A", EOS>>),
                  RuleDef("A", <<"B">>),
                  RuleDef("B", <<"A">>),
                  RuleDef("A", <<"n">>) >>]

GrammarNames == {"lr0", "lr1", "ambiguous", "reduce_reduce", "sequence"}

GrammarOf(name) ==
    CASE name = "lr0" -> FIXTURE_LR0_GRAMMAR
      [] name = "lr1" -> FIXTURE_LR1_GRAMMAR
      [] name = "reduce_reduce" -> REDUCE_REDUCE_GRAMMAR
      [] name = "sequence" -> SEQUENCE_GRAMMAR
      [] name = "cyclic" -> CYCLIC_GRAMMAR
      [] OTHER -> AMBIGUOUS_GRAMMAR

Range(s) == {s[i] : i \in DOMAIN s}

SymbolIds(g) == {s.id : s \in Range(g.symbols)}

\* SymbolSlice::get_symbol_by_id: the first declared symbol with that id
get_symbol_by_id(g, id) ==
    IF \E i \in DOMAIN g.symbols : g.symbols[i].id = id
    THEN LET i == CHOOSE i \in DOMAIN g.symbols :
                    /\ g.symbols[i].id = id
                    /\ \A j \in 1..(i - 1) : g.symbols[j].id # id
         IN g.symbols[i]
    ELSE NoSymbol

KindOf(g, id) == get_symbol_by_id(g, id).kind

is_terminal(g, id) == KindOf(g, id) \in {"EOS", "Epsilon", "Terminal"}
is_eos(g, id) == KindOf(g, id) = "EOS"
is_start(g, id) == KindOf(g, id) = "Start"
is_epsilon(g, id) == KindOf(g, id) = "Epsilon"

\* SymbolSlice::iter_terminals, as the set it enumerates
iter_terminals(g) == {id \in SymbolIds(g) : is_terminal(g, id)}

\* Grammar::iter_rules numbers the rule definitions in declaration order
RuleIds(g) == 0..(Len(g.rules) - 1)
borrow_rule(g, r) == g.rules[r + 1]

\* RuleSet::iter_by_symbol: ids of the rules of a symbol, in rule order
RECURSIVE iter_by_symbol_from(_, _, _)
iter_by_symbol_from(g, sym, r) ==
    IF r >= Len(g.rules) THEN << >>
    ELSE (IF borrow_rule(g, r).lhs = sym THEN << r >> ELSE << >>)
         \o iter_by_symbol_from(g, sym, r + 1)
iter_by_symbol(g, sym) == iter_by_symbol_from(g, sym, 0)

(***************************************************************************)
(* Items.  An item is a rule id, a dot position and a lookahead tuple of   *)
(* at most K symbols (Array<K, Symbol>, a sequence here).                  *)
(***************************************************************************)
\* The repository holds two revisions of the item algebra that differ in
\* Item::next: "src" is src/src/item.rs and "core" is src/core/src/item.rs.
Revisions == {"src", "core"}

\* Item::new: None when the position lies beyond the end of the rule
Item_new(g, r, position) ==
    IF Len(borrow_rule(g, r).rhs) >= position
    THEN [rule |-> r, position |-> position, lookaheads |-> << >>]
    ELSE NoItem

\* Rule::at
at(g, r, position) == Item_new(g, r, position)

is_exhausted(g, item) == item.position >= Len(borrow_rule(g, item.rule).rhs)

\* Item::symbol: the symbol after the dot, None when exhausted
symbol(g, item) ==
    IF item.position < Len(borrow_rule(g, item.rule).rhs)
    THEN borrow_rule(g, item.rule).rhs[item.position + 1]
    ELSE None

is_reaching_end(g, item) ==
    symbol(g, item) # None /\ is_eos(g, symbol(g, item))

is_symbol_non_terminal(g, item) ==
    symbol(g, item) # None /\ ~is_terminal(g, symbol(g, item))

is_symbol_terminal(g, item) ==
    symbol(g, item) # None /\ is_terminal(g, symbol(g, item))

\* Item::next of src/src/item.rs: a fresh item, the lookaheads are dropped
Item_next_src(g, item) == Item_new(g, item.rule, item.position + 1)

\* Item::next of src/core/src/item.rs: the lookaheads are carried over
Item_next_core(g, item) ==
    IF Item_new(g, item.rule, item.position + 1) = NoItem THEN NoItem
    ELSE [Item_new(g, item.rule, item.position + 1)
            EXCEPT !.lookaheads = item.lookaheads]

Item_next(rev, g, item) ==
    IF rev = "src" THEN Item_next_src(g, item) ELSE Item_next_core(g, item)

(***************************************************************************)
(* FIRST and FOLLOW (RuleSet::first, RuleSet::follow).  Both run a stack   *)
(* of symbols with a visited set; the stack is a sequence popped at its    *)
(* end.  An unwrap of None panics: first reports it in its result.         *)
(***************************************************************************)

Pop(stack) == SubSeq(stack, 1, Len(stack) - 1)
Last(stack) == stack[Len(stack)]

\* the first RHS symbol of each rule in rs (a sequence of rule ids), pushed
\* in rule order; a rule with an empty RHS panics (rhs.first().unwrap())
RECURSIVE first_push(_, _, _)
first_push(g, rs, stack) ==
    IF rs = << >> THEN [panic |-> FALSE, stack |-> stack]
    ELSE IF borrow_rule(g, Head(rs)).rhs = << >>
         THEN [panic |-> TRUE, stack |-> stack]
    ELSE first_push(g, Tail(rs), Append(stack, borrow_rule(g, Head(rs)).rhs[1]))

RECURSIVE first_loop(_, _, _, _)
first_loop(g, stack, visited, set) ==
    IF stack = << >> THEN [panic |-> FALSE, set |-> set]
    ELSE LET sym == Last(stack)
             rest == Pop(stack)
         IN IF sym \in visited THEN first_loop(g, rest, visited, set)
            ELSE IF is_terminal(g, sym)
                 THEN first_loop(g, rest, visited \cup {sym}, set \cup {sym})
            ELSE LET pushed == first_push(g, iter_by_symbol(g, sym), rest)
                 IN IF pushed.panic THEN [panic |-> TRUE, set |-> set]
                    ELSE first_loop(g, pushed.stack, visited \cup {sym}, set)

\* a first that looks at the rules of the symbol only, without following
\* the non-terminals they begin with
first_result_rule_heads(g, sym) ==
    IF is_terminal(g, sym) THEN [panic |-> FALSE, set |-> {sym}]
    ELSE [panic |-> FALSE,
          set |-> { id \in { borrow_rule(g, r).rhs[1] :
                               r \in Range(iter_by_symbol(g, sym)) } :
                      is_terminal(g, id) }]

\* RuleSet::first: [panic, set]
first_result(g, sym) ==
    IF is_terminal(g, sym) THEN [panic |-> FALSE, set |-> {sym}]
    ELSE first_loop(g, << sym >>, {}, {})

first(g, sym) == first_result(g, sym).set

\* Rule::follow: the items of rule r with the dot right after an occurrence
\* of sym, kept when exhausted or when a terminal follows the dot
RECURSIVE Rule_follow_from(_, _, _, _)
Rule_follow_from(g, r, sym, pos) ==
    IF pos >= Len(borrow_rule(g, r).rhs) THEN << >>
    ELSE (IF /\ borrow_rule(g, r).rhs[pos + 1] = sym
             /\ \/ is_exhausted(g, at(g, r, pos + 1))
                \/ is_symbol_terminal(g, at(g, r, pos + 1))
          THEN << at(g, r, pos + 1) >> ELSE << >>)
         \o Rule_follow_from(g, r, sym, pos + 1)
Rule_follow(g, r, sym) == Rule_follow_from(g, r, sym, 0)

\* all items of Rule::follow over the rules that contain sym, in rule order
RECURSIVE follow_items(_, _, _)
follow_items(g, sym, r) ==
    IF r >= Len(g.rules) THEN << >>
    ELSE Rule_follow(g, r, sym) \o follow_items(g, sym, r + 1)

\* one pass over the items found for a popped symbol: an exhausted item
\* pushes its rule's LHS, another one adds FIRST of the symbol after the dot
RECURSIVE follow_visit(_, _, _, _)
follow_visit(g, items, stack, set) ==
    IF items = << >> THEN [stack |-> stack, set |-> set]
    ELSE LET item == Head(items)
         IN IF is_exhausted(g, item)
            THEN follow_visit(g, Tail(items),
                              Append(stack, borrow_rule(g, item.rule).lhs), set)
            ELSE follow_visit(g, Tail(items), stack,
                              set \cup first(g, symbol(g, item)))

RECURSIVE follow_loop(_, _, _, _)
follow_loop(g, stack, visited, set) ==
    IF stack = << >> THEN set
    ELSE LET sym == Last(stack)
             rest == Pop(stack)
         IN IF sym \in visited THEN follow_loop(g, rest, visited, set)
            ELSE LET v == follow_visit(g, follow_items(g, sym, 0), rest, set)
                 IN follow_loop(g, v.stack, visited \cup {sym}, v.set)

follow(g, sym) ==
    IF is_start(g, sym) THEN {EOS} ELSE follow_loop(g, << sym >>, {}, {})

(***************************************************************************)
(* Item sets.  An item set is [id, kernel, items]: the kernel is a HashSet *)
(* (a set here; the order a HashSet is iterated in is unspecified, so each *)
(* traversal takes an order of the kernel as an argument), items is the    *)
(* Vec of closure items (a sequence).                                      *)
(***************************************************************************)
RECURSIVE Orders(_)
Orders(S) ==
    IF S = {} THEN { << >> }
    ELSE UNION { { << x >> \o p : p \in Orders(S \ {x}) } : x \in S }

\* FromIterator for ItemSet: the items collected as a kernel
ItemSet_from_iter(kernel) == [id |-> 0, kernel |-> kernel, items |-> << >>]

\* RuleSet::start_item_set: rule 0 at position 0, with <eos> as lookahead
\* when K > 0
start_item_set(g, K) ==
    ItemSet_from_iter({ [at(g, 0, 0) EXCEPT
                           !.lookaheads = IF K > 0 THEN << EOS >> ELSE << >>] })

\* ItemSet::iter: the kernel (in the order ko), then the closure items
ItemSet_iter(set, ko) == ko \o set.items

ItemSet_contains(set, item) ==
    item \in set.kernel \/ item \in Range(set.items)

\* the inner loop of ItemSet::close for one popped item: every rule of the
\* symbol after the dot, at position 0, pushed on the stack and on items
\* unless the set already holds it
RECURSIVE close_rules(_, _, _, _)
close_rules(g, rs, stack, set) ==
    IF rs = << >> THEN [stack |-> stack, set |-> set]
    ELSE LET item == at(g, Head(rs), 0)
         IN IF ItemSet_contains(set, item)
            THEN close_rules(g, Tail(rs), stack, set)
            ELSE close_rules(g, Tail(rs), Append(stack, item),
                             [set EXCEPT !.items = Append(@, item)])

RECURSIVE close_loop(_, _, _)
close_loop(g, stack, set) ==
    IF stack = << >> THEN set
    ELSE LET item == Last(stack)
             rest == Pop(stack)
         IN IF is_symbol_non_terminal(g, item)
            THEN LET c == close_rules(g, iter_by_symbol(g, symbol(g, item)),
                                      rest, set)
                 IN close_loop(g, c.stack, c.set)
            ELSE close_loop(g, rest, set)

\* a set of symbols as a sequence, in the order the grammar declares them
\* (the order a HashSet of symbols is iterated in is unspecified; the order
\* of the lookaheads of one closure item is not observable in the table,
\* which reads the items of one lookahead in the order of their rules)
RECURSIVE in_declaration_order(_, _, _)
in_declaration_order(g, S, i) ==
    IF i > Len(g.symbols) THEN << >>
    ELSE (IF g.symbols[i].id \in S THEN << g.symbols[i].id >> ELSE << >>)
         \o in_declaration_order(g, S, i + 1)

\* ItemSet::add_lookaheads: every closure item is replaced by one copy
\* per symbol of FOLLOW(lhs of its rule), that symbol being its lookahead
RECURSIVE with_lookaheads(_, _)
with_lookaheads(item, syms) ==
    IF syms = << >> THEN << >>
    ELSE << [item EXCEPT !.lookaheads = << Head(syms) >>] >>
         \o with_lookaheads(item, Tail(syms))

RECURSIVE add_lookaheads_items(_, _)
add_lookaheads_items(g, items) ==
    IF items = << >> THEN << >>
    ELSE with_lookaheads(Head(items),
             in_declaration_order(g,
                 follow(g, borrow_rule(g, Head(items).rule).lhs), 1))
         \o add_lookaheads_items(g, Tail(items))

add_lookaheads(g, set) == [set EXCEPT !.items = add_lookaheads_items(g, @)]

\* ItemSet::close, the kernel being iterated in the order ko
close(g, K, set, ko) ==
    IF K = 1 THEN add_lookaheads(g, close_loop(g, ko, set))
    ELSE close_loop(g, ko, set)

\* ItemSet::next: Item::next of every item, collected as a kernel
ItemSet_next(rev, g, items) ==
    ItemSet_from_iter({ Item_next(rev, g, i) : i \in items } \ {NoItem})

\* ItemSet::reachable_sets: for every symbol of the grammar but <eos> and
\* <eps>, in declaration order, the kernel made of the items with that
\* symbol after the dot, advanced; empty kernels are left out
RECURSIVE reachable_sets_from(_, _, _, _)
reachable_sets_from(rev, g, set, i) ==
    IF i > Len(g.symbols) THEN << >>
    ELSE LET sym == g.symbols[i].id
             succ == ItemSet_next(rev, g,
                        { it \in set.kernel \cup Range(set.items) :
                              symbol(g, it) = sym })
         IN (IF /\ ~(is_eos(g, sym) \/ is_epsilon(g, sym))
                /\ succ.kernel # {}
             THEN << [symbol |-> sym, set |-> succ] >> ELSE << >>)
            \o reachable_sets_from(rev, g, set, i + 1)
reachable_sets(rev, g, set) == reachable_sets_from(rev, g, set, 1)

has_exhausted_items(g, set) ==
    \E it \in set.kernel \cup Range(set.items) : is_exhausted(g, it)

has_item_reaching_eos(g, set) ==
    \E it \in set.kernel \cup Range(set.items) : is_reaching_end(g, it)

\* ItemSet::iter_exhausted_items, in iteration order
RECURSIVE iter_exhausted_items(_, _)
iter_exhausted_items(g, items) ==
    IF items = << >> THEN << >>
    ELSE (IF is_exhausted(g, Head(items)) THEN << Head(items) >> ELSE << >>)
         \o iter_exhausted_items(g, Tail(items))

\* ItemSet::get_exhausted_rule: the rule of the first exhausted item
get_exhausted_rule(g, set, ko) ==
    Head(iter_exhausted_items(g, ItemSet_iter(set, ko))).rule

(***************************************************************************)
(* The LR graph (Graph): sets, edges and the work list of Graph::build.    *)
(***************************************************************************)
\* an equality that compares the closure items too
ItemSet_eq_with_items(a, b) == a.kernel = b.kernel /\ a.items = b.items

\* ItemSet::eq compares the kernels only
ItemSet_eq(a, b) == a.kernel = b.kernel

Graph_contains(sets, set) == \E i \in DOMAIN sets : ItemSet_eq(sets[i], set)

\* Graph::get_id: the id of the first set with the same kernel
Graph_get_id(sets, set) ==
    sets[CHOOSE i \in DOMAIN sets :
            /\ ItemSet_eq(sets[i], set)
            /\ \A j \in 1..(i - 1) : ~ItemSet_eq(sets[j], set)].id

\* Graph::push: the set is appended with the next id unless a set with the
\* same kernel exists
Graph_push(sets, set) ==
    IF ~Graph_contains(sets, set)
    THEN Append(sets, [set EXCEPT !.id = Len(sets)])
    ELSE sets

\* a loop that records as the target of an edge the id after the one of
\* the state reached
RECURSIVE build_edges_next_id(_, _, _, _, _)
build_edges_next_id(sets, edges, stack, set_id, reach) ==
    IF reach = << >> THEN [sets |-> sets, edges |-> edges, stack |-> stack]
    ELSE LET kernel == Head(reach).set
             fresh == ~Graph_contains(sets, kernel)
             sets2 == IF fresh THEN Graph_push(sets, kernel) ELSE sets
             to_id == IF fresh THEN Len(sets) ELSE Graph_get_id(sets, kernel)
         IN build_edges_next_id(sets2,
                        Append(edges, << set_id, Head(reach).symbol, to_id + 1 >>),
                        IF fresh THEN Append(stack, to_id) ELSE stack,
                        set_id, Tail(reach))

\* the for loop of Graph::build over the reachable sets of state set_id
RECURSIVE build_edges(_, _, _, _, _)
build_edges(sets, edges, stack, set_id, reach) ==
    IF reach = << >> THEN [sets |-> sets, edges |-> edges, stack |-> stack]
    ELSE LET kernel == Head(reach).set
             fresh == ~Graph_contains(sets, kernel)
             sets2 == IF fresh THEN Graph_push(sets, kernel) ELSE sets
             to_id == IF fresh THEN Len(sets) ELSE Graph_get_id(sets, kernel)
         IN build_edges(sets2,
                        Append(edges, << set_id, Head(reach).symbol, to_id >>),
                        IF fresh THEN Append(stack, to_id) ELSE stack,
                        set_id, Tail(reach))

(***************************************************************************)
(* Table rows (Row).  actions and goto are HashMaps keyed by symbol: total *)
(* functions over the symbol ids here, NoAction / NoState marking a key    *)
(* that is absent.                                                         *)
(***************************************************************************)
Shift(state) == [type |-> "Shift", arg |-> state]
Reduce(rule) == [type |-> "Reduce", arg |-> rule]
Accept == [type |-> "Accept", arg |-> 0]
NoAction == [type |-> "None", arg |-> 0]
NoState == -1

EmptyRow(g) == [actions |-> [id \in SymbolIds(g) |-> NoAction],
                goto |-> [id \in SymbolIds(g) |-> NoState]]

\* outcome of building one row
RowOk(row) == [kind |-> "Ok", row |-> row, symbol |-> None]
RowErr(g, kind, sym) == [kind |-> kind, row |-> EmptyRow(g), symbol |-> sym]

\* Graph::iter_transitions: the edges leaving a state, as (symbol, target)
RECURSIVE transition_edges(_, _)
transition_edges(edges, id) ==
    IF edges = << >> THEN << >>
    ELSE (IF Head(edges)[1] = id
          THEN << [symbol |-> Head(edges)[2], to |-> Head(edges)[3]] >>
          ELSE << >>)
         \o transition_edges(Tail(edges), id)

\* the loop over the terminal edges of both row builders: a Shift is
\* inserted for each edge kept by `keep`, unless the map already holds a
\* Reduce for the symbol, which is the shift/reduce conflict
RECURSIVE insert_shifts(_, _, _, _)
insert_shifts(g, tedges, keep, row) ==
    IF tedges = << >> THEN RowOk(row)
    ELSE LET sym == Head(tedges).symbol
         IN IF sym \notin keep
            THEN insert_shifts(g, Tail(tedges), keep, row)
            ELSE IF row.actions[sym].type = "Reduce"
            THEN RowErr(g, "ShiftReduceConflict", sym)
            ELSE insert_shifts(g, Tail(tedges), keep,
                     [row EXCEPT !.actions[sym] = Shift(Head(tedges).to)])

\* goto.extend over the edges on non-terminals
RECURSIVE extend_goto(_, _, _)
extend_goto(g, tedges, row) ==
    IF tedges = << >> THEN row
    ELSE extend_goto(g, Tail(tedges),
             IF is_terminal(g, Head(tedges).symbol) THEN row
             ELSE [row EXCEPT !.goto[Head(tedges).symbol] = Head(tedges).to])

\* actions.extend over the exhausted items of an LR(1) row, in iteration
\* order: each insert replaces whatever the key held
RECURSIVE extend_reduces_lr1(_, _)
extend_reduces_lr1(items, row) ==
    IF items = << >> THEN row
    ELSE extend_reduces_lr1(Tail(items),
             [row EXCEPT !.actions[Head(items).lookaheads[1]] =
                             Reduce(Head(items).rule)])

\* Row::from_transition_lr1
from_transition_lr1(g, set, tedges, ko) ==
    LET r0 == IF has_item_reaching_eos(g, set)
              THEN [EmptyRow(g) EXCEPT !.actions[EOS] = Accept]
              ELSE EmptyRow(g)
        shifted == insert_shifts(g, tedges, iter_terminals(g), r0)
        exhausted == iter_exhausted_items(g, ItemSet_iter(set, ko))
    IN IF shifted.kind # "Ok" THEN shifted
       ELSE IF \E i \in DOMAIN exhausted : exhausted[i].lookaheads = << >>
            \* item.lookaheads[0] on an empty lookahead tuple
            THEN RowErr(g, "panic", None)
       ELSE RowOk(extend_reduces_lr1(exhausted,
                                      extend_goto(g, tedges, shifted.row)))

\* from_transition_lr0 without the insertion of Accept
from_transition_lr0_no_accept(g, set, tedges, ko) ==
    LET shifted == insert_shifts(g, tedges,
                       { t \in iter_terminals(g) :
                             ~is_eos(g, t) /\ ~is_epsilon(g, t) },
                       EmptyRow(g))
        r1 == extend_goto(g, tedges, shifted.row)
        r3 == IF has_exhausted_items(g, set)
              THEN [r1 EXCEPT !.actions =
                       [id \in SymbolIds(g) |->
                           IF id \in iter_terminals(g)
                           THEN Reduce(get_exhausted_rule(g, set, ko))
                           ELSE r1.actions[id]]]
              ELSE r1
    IN IF shifted.kind # "Ok" THEN shifted ELSE RowOk(r3)

\* from_transition_lr0 without the reductions of the exhausted items
from_transition_lr0_no_reduce(g, set, tedges, ko) ==
    LET shifted == insert_shifts(g, tedges,
                       { t \in iter_terminals(g) :
                             ~is_eos(g, t) /\ ~is_epsilon(g, t) },
                       EmptyRow(g))
        r1 == extend_goto(g, tedges, shifted.row)
        r2 == IF has_item_reaching_eos(g, set)
              THEN [r1 EXCEPT !.actions[EOS] = Accept] ELSE r1
    IN IF shifted.kind # "Ok" THEN shifted ELSE RowOk(r2)

\* Row::from_transition_lr0
from_transition_lr0(g, set, tedges, ko) ==
    LET shifted == insert_shifts(g, tedges,
                       { t \in iter_terminals(g) :
                             ~is_eos(g, t) /\ ~is_epsilon(g, t) },
                       EmptyRow(g))
        r1 == extend_goto(g, tedges, shifted.row)
        r2 == IF has_item_reaching_eos(g, set)
              THEN [r1 EXCEPT !.actions[EOS] = Accept] ELSE r1
        r3 == IF has_exhausted_items(g, set)
              THEN [r2 EXCEPT !.actions =
                       [id \in SymbolIds(g) |->
                           IF id \in iter_terminals(g)
                           THEN Reduce(get_exhausted_rule(g, set, ko))
                           ELSE r2.actions[id]]]
              ELSE r2
    IN IF shifted.kind # "Ok" THEN shifted ELSE RowOk(r3)

\* from_transition building an LR(1) row for every K other than 0
from_transition_lr1_otherwise(g, K, set, tedges, ko) ==
    IF K = 0 THEN from_transition_lr0(g, set, tedges, ko)
    ELSE from_transition_lr1(g, set, tedges, ko)

\* Row::from_transition
from_transition(g, K, set, tedges, ko) ==
    IF K = 0 THEN from_transition_lr0(g, set, tedges, ko)
    ELSE IF K = 1 THEN from_transition_lr1(g, set, tedges, ko)
    ELSE RowErr(g, "UnsupportedAlgorithm", None)

\* Row::iter_terminals / Row::iter_nonterminals: the keys of the two maps
Row_iter_terminals(row) ==
    { id \in DOMAIN row.actions : row.actions[id] # NoAction }
Row_iter_nonterminals(row) ==
    { id \in DOMAIN row.goto : row.goto[id] # NoState }

(***************************************************************************)
(* State.                                                                  *)
(***************************************************************************)
VARIABLES
    grammar,      \* name of the grammar the table is built from
    K,            \* the const parameter K of LrTable::build
    rev,          \* the revision of the item algebra in use
    phase,        \* "graph", "table", "built" or "failed": where build is
    sets,         \* Graph::sets
    edges,        \* Graph::edges
    build_stack,  \* the work list `stack` of Graph::build
    rows,         \* LrTable::rows, as far as collected
    built,        \* outcome of LrTable::build
    reducers,     \* the reducers handed to LrParser::new
    input,        \* the token sequence the lexer is created over
    lexer,        \* the tokens the lexer has not produced yet
    cursor,       \* `cursor` of LrParser::parse: the last lexer.next()
    states,       \* `states` of LrParser::parse
    stack,        \* `stack` of LrParser::parse: the AST nodes
    reducing,     \* the reducer call in progress
    pc,           \* "idle", "loop", "reducer" or "done": where parse is
    result,       \* what parse returned
    trace,        \* the actions parse has taken, in order
    peer,         \* the locals and the lexer of a second call of parse
                  \* over the same table, while it is not the one stepping
    intake,       \* a grammar under construction and the outcome of the
                  \* last call made on it
    syntax,       \* a syntax and the number of times it was preprocessed
    charset,      \* a CharSet made from a range and the last char it was
                  \* asked about
    lexing        \* a Lexer over its states and its stream

vars == << grammar, K, rev, phase, sets, edges, build_stack, rows, built,
           reducers, input, lexer, cursor, states, stack, reducing, pc, result,
           trace, peer, intake, syntax, charset, lexing >>

build_vars == << grammar, K, rev, phase, sets, edges, build_stack, rows,
                 built >>
parse_vars == << reducers, input, lexer, cursor, states, stack, reducing, pc,
                 result, trace >>

\* what belongs neither to the builder nor to the call of parse that is
\* stepping
dfa_vars == << charset, lexing >>
aux_vars == << peer, intake, syntax, dfa_vars >>

G == GrammarOf(grammar)

\* the values K is instantiated with: 0, 1 and an unsupported one
Ks == {0, 1, 2}

BuildOutcome(kind, state, sym) ==
    [kind |-> kind, state |-> state, symbol |-> sym]

ParseOutcome(kind, got, expecting, node) ==
    [kind |-> kind, got |-> got, expecting |-> expecting, node |-> node]

\* an AST node: its symbol id and, for a node a reducer returned, the
\* number of the reducer call that returned it (0 for a token's node)
Node(id) == [symbol_id |-> id, call |-> 0]
NoNode == Node(None)
NoReducing == [rule |-> -1, call |-> 0, drained |-> << >>]

\* the locals of a call of parse that has not started
IdleDriver ==
    [reducers |-> [len |-> 0, behaviour |-> "none"],
     input |-> << >>, lexer |-> << >>, cursor |-> None, states |-> << >>,
     stack |-> << >>, reducing |-> NoReducing, pc |-> "idle",
     result |-> ParseOutcome("none", None, {}, NoNode), trace |-> << >>]

\* Grammar::default: the three sentinels, no call made yet
Grammar_default ==
    [via |-> "Grammar",
     symbols |-> << Symbol_start, Symbol_eos, Symbol_epsilon >>,
     rules |-> << >>,
     kind |-> "none", id |-> None, calls |-> 0]

\* Syntax::default: no rule, not preprocessed
Syntax_default == [rules |-> << >>, passes |-> 0]

\* no CharSet made yet
CharSet_default == [made |-> FALSE]

\* no Lexer made yet
Lexer_default == [made |-> FALSE]

\* Graph::new, and a parser that does not exist yet
InitOf(names) ==
    /\ grammar \in names
    /\ K \in Ks
    /\ rev \in Revisions
    /\ phase = "graph"
    /\ sets = << start_item_set(G, K) >>
    /\ edges = << >>
    /\ build_stack = << 0 >>
    /\ rows = << >>
    /\ built = BuildOutcome("none", NoState, None)
    /\ reducers = [len |-> 0, behaviour |-> "none"]
    /\ input = << >>
    /\ lexer = << >>
    /\ cursor = None
    /\ states = << >>
    /\ stack = << >>
    /\ reducing = NoReducing
    /\ pc = "idle"
    /\ result = ParseOutcome("none", None, {}, NoNode)
    /\ trace = << >>
    /\ peer = IdleDriver
    /\ intake = Grammar_default
    /\ syntax = Syntax_default
    /\ charset = CharSet_default
    /\ lexing = Lexer_default

Init == InitOf(GrammarNames)

(***************************************************************************)
(* LrTable::build: Graph::build, then LrTable::from_graph.                 *)
(***************************************************************************)
\* a loop that does not return once its work list is empty
GraphBuildStep_never_done ==
    /\ phase = "graph"
    /\ build_stack # << >>
    /\ LET set_id == Head(build_stack)
       IN \E closed \in { close(G, K, sets[set_id + 1], ko) :
                              ko \in Orders(sets[set_id + 1].kernel) } :
            LET b == build_edges([sets EXCEPT ![set_id + 1] = closed], edges,
                                 Tail(build_stack), set_id,
                                 reachable_sets(rev, G, closed))
            IN /\ sets' = b.sets
               /\ edges' = b.edges
               /\ build_stack' = b.stack
               /\ phase' = "graph"
    /\ UNCHANGED << grammar, K, rev, rows, built >>
    /\ UNCHANGED << parse_vars, aux_vars >>

\* one iteration of the while loop of Graph::build: the state at the front
\* of the work list is closed, its reachable kernels are pushed
GraphBuildStep ==
    /\ phase = "graph"
    /\ build_stack # << >>
    /\ LET set_id == Head(build_stack)
       IN \E closed \in { close(G, K, sets[set_id + 1], ko) :
                              ko \in Orders(sets[set_id + 1].kernel) } :
            LET b == build_edges([sets EXCEPT ![set_id + 1] = closed], edges,
                                 Tail(build_stack), set_id,
                                 reachable_sets(rev, G, closed))
            IN /\ sets' = b.sets
               /\ edges' = b.edges
               /\ build_stack' = b.stack
               /\ phase' = IF b.stack = << >> THEN "table" ELSE "graph"
    /\ UNCHANGED << grammar, K, rev, rows, built >>
    /\ UNCHANGED << parse_vars, aux_vars >>

\* LrTable::from_graph: the row of the next state; the first row that
\* fails ends the build with its error
FromGraphRow ==
    /\ phase = "table"
    /\ LET id == Len(rows)
           set == sets[id + 1]
       IN \E r \in { from_transition(G, K, set, transition_edges(edges, set.id), ko) :
                         ko \in Orders(set.kernel) } :
            IF r.kind = "Ok"
            THEN /\ rows' = Append(rows, r.row)
                 /\ phase' = IF id + 1 = Len(sets) THEN "built" ELSE "table"
                 /\ built' = IF id + 1 = Len(sets)
                             THEN BuildOutcome("Ok", NoState, None)
                             ELSE built
            ELSE /\ rows' = rows
                 /\ phase' = "failed"
                 /\ built' = BuildOutcome(r.kind, set.id, r.symbol)
    /\ UNCHANGED << grammar, K, rev, sets, edges, build_stack >>
    /\ UNCHANGED << parse_vars, aux_vars >>

(***************************************************************************)
(* The token source and the reducers.                                      *)
(***************************************************************************)
\* what lexer.next() yields: None at the end of the stream, LexerError for
\* Some(Err(..)), else the symbol id of the token
LexerError == "<lexer-error>"
\* the symbol id of a token the grammar does not declare
UndeclaredId == "?"

TokenAlphabet(g) ==
    { id \in SymbolIds(g) : KindOf(g, id) = "Terminal" }
        \cup {UndeclaredId, LexerError}

SeqsUpTo(S, n) == UNION { [1..m -> S] : m \in 0..n }

\* the inputs of the parser tests (test_lr0_parser, test_lr1_parser)
ScenarioInputs(name) ==
    CASE name = "lr0" -> { <<"1", "+", "1", "*", "0", "*", "1", "*", "1">> }
      [] name = "lr1" -> { <<"n", "+", "n">> }
      [] name = "reduce_reduce" -> { <<"n">> }
      [] name = "sequence" -> { <<"a">> }
      [] name = "cyclic" -> { <<"n">> }
      [] OTHER -> { <<"n", "+", "n">> }

Inputs(name) ==
    SeqsUpTo(TokenAlphabet(GrammarOf(name)), MaxInputLen)
        \cup ScenarioInputs(name)

\* a token source that drops the token after the one it yields
Lexer_next_skipping(tokens) ==
    IF tokens = << >> THEN [item |-> None, rest |-> << >>]
    ELSE [item |-> Head(tokens),
          rest |-> IF Len(tokens) > 1 THEN Tail(Tail(tokens)) ELSE << >>]

\* Lexer::next: [item, rest]
Lexer_next(tokens) ==
    IF tokens = << >> THEN [item |-> None, rest |-> << >>]
    ELSE [item |-> Head(tokens), rest |-> Tail(tokens)]

\* the reducer slices handed to LrParser::new: as many reducers as rules
\* or one less, all AstNodeReducer or all arbitrary user functions
ReducerSlices(g) ==
    [len : {Len(g.rules), Len(g.rules) - 1},
     behaviour : {"AstNodeReducer", "arbitrary"}]

\* AstNodeReducer::reduce failing instead of returning the LHS node
ReducerReturns_stub_fails(g, behaviour, r) ==
    IF behaviour = "AstNodeReducer"
    THEN { [ok |-> FALSE, node |-> NoNode] }
    ELSE { [ok |-> TRUE, node |-> Node(id)] : id \in SymbolIds(g) }
            \cup { [ok |-> FALSE, node |-> NoNode] }

\* what a reducer may return for a rule: AstNodeReducer::reduce returns a
\* node of the rule's LHS; an arbitrary reducer returns any node or fails
ReducerReturns(g, behaviour, r) ==
    IF behaviour = "AstNodeReducer"
    THEN { [ok |-> TRUE, node |-> Node(borrow_rule(g, r).lhs)] }
    ELSE { [ok |-> TRUE, node |-> Node(id)] : id \in SymbolIds(g) }
            \cup { [ok |-> FALSE, node |-> NoNode] }

\* SymbolSlice::try_get_symbol_by_id
try_get_symbol_by_id(g, id) == get_symbol_by_id(g, id)

(***************************************************************************)
(* LrParser::new and LrParser::parse.                                      *)
(***************************************************************************)
Finish(outcome) ==
    /\ pc' = "done"
    /\ result' = outcome

\* LrParser::new panics unless there is one reducer per rule; parse then
\* starts with states = [0], an empty stack and the first lexer.next()
ParseStartWith(inputs) ==
    /\ phase = "built"
    /\ pc = "idle"
    /\ \E rs \in ReducerSlices(G), tokens \in inputs :
         /\ reducers' = rs
         /\ input' = tokens
         /\ IF rs.len # Len(G.rules)
            THEN /\ Finish(ParseOutcome("panic", None, {}, NoNode))
                 /\ UNCHANGED << lexer, cursor, states >>
            ELSE /\ states' = << 0 >>
                 /\ cursor' = Lexer_next(tokens).item
                 /\ lexer' = Lexer_next(tokens).rest
                 /\ pc' = "loop"
                 /\ UNCHANGED result
    /\ UNCHANGED << stack, reducing, trace >>
    /\ UNCHANGED << build_vars, aux_vars >>

ParseStart == ParseStartWith(Inputs(grammar))

\* the lookahead of the current loop iteration: <eos> once the lexer is
\* exhausted, else the symbol id of the current token
Lookahead == IF cursor = None THEN EOS ELSE cursor

\* LrTable::action
Table_action(state, sym) ==
    IF state + 1 \in DOMAIN rows /\ sym \in DOMAIN rows[state + 1].actions
    THEN rows[state + 1].actions[sym]
    ELSE NoAction

\* LrTable::goto
Table_goto(state, sym) ==
    IF state + 1 \in DOMAIN rows /\ sym \in DOMAIN rows[state + 1].goto
    THEN rows[state + 1].goto[sym]
    ELSE NoState

\* iter_terminals answering with the terminals of the grammar
Table_iter_terminals_all(state) == iter_terminals(G)

\* LrTable::iter_terminals
Table_iter_terminals(state) == Row_iter_terminals(rows[state + 1])

\* LrTable::iter_non_terminals
Table_iter_non_terminals(state) == Row_iter_nonterminals(rows[state + 1])

\* a driver that recovers from a lexer error: it polls the next token and
\* goes on
ParseLexerError_recover ==
    /\ pc = "loop"
    /\ cursor = LexerError
    /\ cursor' = Lexer_next(lexer).item
    /\ lexer' = Lexer_next(lexer).rest
    /\ UNCHANGED << reducers, input, states, stack, reducing, trace, pc, result >>
    /\ UNCHANGED << build_vars, aux_vars >>

\* the current token is a lexer error: it is returned as is
ParseLexerError ==
    /\ pc = "loop"
    /\ cursor = LexerError
    /\ Finish(ParseOutcome("LexerError", None, {}, NoNode))
    /\ UNCHANGED << reducers, input, lexer, cursor, states, stack, reducing, trace >>
    /\ UNCHANGED << build_vars, aux_vars >>

\* the current token's symbol id is not a symbol of the grammar
ParseUnknownSymbol ==
    /\ pc = "loop"
    /\ cursor \notin {None, LexerError}
    /\ try_get_symbol_by_id(G, cursor) = NoSymbol
    /\ Finish(ParseOutcome("UnknownSymbol", cursor, {}, NoNode))
    /\ UNCHANGED << reducers, input, lexer, cursor, states, stack, reducing, trace >>
    /\ UNCHANGED << build_vars, aux_vars >>

\* the lookahead is a symbol of the grammar: the action the table holds
\* for it in the state on top of `states` can be looked up
CanLookUp ==
    /\ pc = "loop"
    /\ cursor # LexerError
    /\ try_get_symbol_by_id(G, Lookahead) # NoSymbol

\* ParseNoAction reporting the token's id, which is None at the end of
\* the stream, instead of the id of the lookahead symbol
ParseNoAction_token_id ==
    /\ CanLookUp
    /\ Table_action(Last(states), Lookahead) = NoAction
    /\ Finish(ParseOutcome("UnexpectedSymbol", cursor,
                           Table_iter_terminals(Last(states)), NoNode))
    /\ UNCHANGED << reducers, input, lexer, cursor, states, stack, reducing, trace >>
    /\ UNCHANGED << build_vars, aux_vars >>

\* no action: UnexpectedSymbol with the terminals of the row
ParseNoAction ==
    /\ CanLookUp
    /\ Table_action(Last(states), Lookahead) = NoAction
    /\ Finish(ParseOutcome("UnexpectedSymbol", Lookahead,
                           Table_iter_terminals(Last(states)), NoNode))
    /\ UNCHANGED << reducers, input, lexer, cursor, states, stack, reducing, trace >>
    /\ UNCHANGED << build_vars, aux_vars >>

\* a Shift that replaces the state on top of `states` instead of pushing
ParseShift_keeps_state ==
    /\ CanLookUp
    /\ LET action == Table_action(Last(states), Lookahead)
       IN /\ action.type = "Shift"
          /\ IF ~is_eos(G, Lookahead)
             THEN /\ stack' = Append(stack, Node(cursor))
                  /\ cursor' = Lexer_next(lexer).item
                  /\ lexer' = Lexer_next(lexer).rest
             ELSE UNCHANGED << stack, cursor, lexer >>
          /\ states' = [states EXCEPT ![Len(states)] = action.arg]
          /\ trace' = Append(trace, action)
    /\ UNCHANGED << reducers, input, reducing, pc, result >>
    /\ UNCHANGED << build_vars, aux_vars >>

\* Action::Shift: unless the lookahead is <eos>, the token becomes a node
\* on the stack and the lexer is polled; the state is pushed
ParseShift ==
    /\ CanLookUp
    /\ LET action == Table_action(Last(states), Lookahead)
       IN /\ action.type = "Shift"
          /\ IF ~is_eos(G, Lookahead)
             THEN /\ stack' = Append(stack, Node(cursor))
                  /\ cursor' = Lexer_next(lexer).item
                  /\ lexer' = Lexer_next(lexer).rest
             ELSE UNCHANGED << stack, cursor, lexer >>
          /\ states' = Append(states, action.arg)
          /\ trace' = Append(trace, action)
    /\ UNCHANGED << reducers, input, reducing, pc, result >>
    /\ UNCHANGED << build_vars, aux_vars >>

\* the number of Reduce actions among the actions taken
ReduceCount(actions) ==
    Cardinality({ i \in DOMAIN actions : actions[i].type = "Reduce" })

\* the first node of drained whose symbol id differs from the RHS symbol
\* at its place (the zip of the drained nodes with the RHS), 0 when none
Mismatch(drained, rhs) ==
    LET n == IF Len(drained) < Len(rhs) THEN Len(drained) ELSE Len(rhs)
        bad == { i \in 1..n : drained[i].symbol_id # rhs[i] }
    IN IF bad = {} THEN 0
       ELSE CHOOSE i \in bad : \A j \in bad : i <= j

\* a Reduce that drains one node fewer than the rule has RHS symbols
ParseReduce_short_drain ==
    /\ CanLookUp
    /\ LET action == Table_action(Last(states), Lookahead)
           rule == borrow_rule(G, action.arg)
           consume == Len(rule.rhs)
           keep == IF Len(stack) >= consume THEN Len(stack) - consume + 1 ELSE 0
           drained == SubSeq(stack, keep + 1, Len(stack))
           bad == Mismatch(drained, rule.rhs)
           kept == SubSeq(states, 1,
                     IF Len(states) > consume THEN Len(states) - consume ELSE 0)
       IN /\ action.type = "Reduce"
          /\ stack' = SubSeq(stack, 1, keep)
          /\ trace' = Append(trace, action)
          /\ IF bad # 0
             THEN /\ Finish(ParseOutcome("UnexpectedSymbol",
                                drained[bad].symbol_id, {rule.rhs[bad]}, NoNode))
                  /\ UNCHANGED << states, reducing >>
             ELSE IF kept = << >>
             THEN \* states.last().copied().unwrap() on an empty vector
                  /\ Finish(ParseOutcome("panic", None, {}, NoNode))
                  /\ states' = kept
                  /\ UNCHANGED reducing
             ELSE IF Table_goto(Last(kept), rule.lhs) = NoState
             THEN /\ Finish(ParseOutcome("UnexpectedSymbol", rule.lhs,
                                Table_iter_non_terminals(Last(kept)), NoNode))
                  /\ states' = kept
                  /\ UNCHANGED reducing
             ELSE /\ states' = Append(kept, Table_goto(Last(kept), rule.lhs))
                  /\ reducing' = [rule |-> action.arg,
                                   call |-> ReduceCount(trace) + 1,
                                   drained |-> drained]
                  /\ pc' = "reducer"
                  /\ UNCHANGED result
    /\ UNCHANGED << reducers, input, lexer, cursor >>
    /\ UNCHANGED << build_vars, aux_vars >>

\* Action::Reduce up to the call of the reducer: the nodes of the RHS are
\* drained and checked, as many states are dropped, the goto state of the
\* LHS is pushed, and the reducer is called
ParseReduce ==
    /\ CanLookUp
    /\ LET action == Table_action(Last(states), Lookahead)
           rule == borrow_rule(G, action.arg)
           consume == Len(rule.rhs)
           keep == IF Len(stack) > consume THEN Len(stack) - consume ELSE 0
           drained == SubSeq(stack, keep + 1, Len(stack))
           bad == Mismatch(drained, rule.rhs)
           kept == SubSeq(states, 1,
                     IF Len(states) > consume THEN Len(states) - consume ELSE 0)
       IN /\ action.type = "Reduce"
          /\ stack' = SubSeq(stack, 1, keep)
          /\ trace' = Append(trace, action)
          /\ IF bad # 0
             THEN /\ Finish(ParseOutcome("UnexpectedSymbol",
                                drained[bad].symbol_id, {rule.rhs[bad]}, NoNode))
                  /\ UNCHANGED << states, reducing >>
             ELSE IF kept = << >>
             THEN \* states.last().copied().unwrap() on an empty vector
                  /\ Finish(ParseOutcome("panic", None, {}, NoNode))
                  /\ states' = kept
                  /\ UNCHANGED reducing
             ELSE IF Table_goto(Last(kept), rule.lhs) = NoState
             THEN /\ Finish(ParseOutcome("UnexpectedSymbol", rule.lhs,
                                Table_iter_non_terminals(Last(kept)), NoNode))
                  /\ states' = kept
                  /\ UNCHANGED reducing
             ELSE /\ states' = Append(kept, Table_goto(Last(kept), rule.lhs))
                  /\ reducing' = [rule |-> action.arg,
                                   call |-> ReduceCount(trace) + 1,
                                   drained |-> drained]
                  /\ pc' = "reducer"
                  /\ UNCHANGED result
    /\ UNCHANGED << reducers, input, lexer, cursor >>
    /\ UNCHANGED << build_vars, aux_vars >>

\* ReducerReturn leaving the reducer call in progress
ReducerReturn_pending ==
    /\ pc = "reducer"
    /\ \E ret \in ReducerReturns(G, reducers.behaviour, reducing.rule) :
         LET lhs == borrow_rule(G, reducing.rule).lhs
         IN IF ~ret.ok
            THEN /\ Finish(ParseOutcome("Other", None, {}, NoNode))
                 /\ UNCHANGED stack
            ELSE IF ret.node.symbol_id # lhs
            THEN /\ Finish(ParseOutcome("UnexpectedSymbol",
                               ret.node.symbol_id, {lhs}, NoNode))
                 /\ UNCHANGED stack
            ELSE /\ stack' = Append(stack,
                                     [ret.node EXCEPT !.call = reducing.call])
                 /\ pc' = "loop"
                 /\ UNCHANGED result
    /\ UNCHANGED << reducers, input, lexer, cursor, states, trace, reducing >>
    /\ UNCHANGED << build_vars, aux_vars >>

\* the reducer returns: its error is returned as is, a node whose symbol
\* id is not the LHS is an UnexpectedSymbol, else the node is pushed
ReducerReturn ==
    /\ pc = "reducer"
    /\ \E ret \in ReducerReturns(G, reducers.behaviour, reducing.rule) :
         LET lhs == borrow_rule(G, reducing.rule).lhs
         IN IF ~ret.ok
            THEN /\ Finish(ParseOutcome("Other", None, {}, NoNode))
                 /\ UNCHANGED stack
            ELSE IF ret.node.symbol_id # lhs
            THEN /\ Finish(ParseOutcome("UnexpectedSymbol",
                               ret.node.symbol_id, {lhs}, NoNode))
                 /\ UNCHANGED stack
            ELSE /\ stack' = Append(stack,
                                     [ret.node EXCEPT !.call = reducing.call])
                 /\ pc' = "loop"
                 /\ UNCHANGED result
    /\ reducing' = NoReducing
    /\ UNCHANGED << reducers, input, lexer, cursor, states, trace >>
    /\ UNCHANGED << build_vars, aux_vars >>

\* a driver that accepts at the end of the stream whatever the table holds
ParseAccept_at_eos ==
    /\ CanLookUp
    /\ Lookahead = EOS
    /\ trace' = Append(trace, Accept)
    /\ IF stack = << >>
       THEN /\ Finish(ParseOutcome("panic", None, {}, NoNode))
            /\ UNCHANGED stack
       ELSE /\ Finish(ParseOutcome("Ok", None, {}, Last(stack)))
            /\ stack' = Pop(stack)
    /\ UNCHANGED << reducers, input, lexer, cursor, states, reducing >>
    /\ UNCHANGED << build_vars, aux_vars >>

\* Action::Accept: the node on top of the stack is returned
ParseAccept ==
    /\ CanLookUp
    /\ LET action == Table_action(Last(states), Lookahead)
       IN /\ action.type = "Accept"
          /\ trace' = Append(trace, action)
          /\ IF stack = << >>
             THEN \* stack.pop().unwrap() on an empty vector
                  /\ Finish(ParseOutcome("panic", None, {}, NoNode))
                  /\ UNCHANGED stack
             ELSE /\ Finish(ParseOutcome("Ok", None, {}, Last(stack)))
                  /\ stack' = Pop(stack)
    /\ UNCHANGED << reducers, input, lexer, cursor, states, reducing >>
    /\ UNCHANGED << build_vars, aux_vars >>

Next ==
    \/ GraphBuildStep
    \/ FromGraphRow
    \/ ParseStart
    \/ ParseLexerError
    \/ ParseUnknownSymbol
    \/ ParseNoAction
    \/ ParseShift
    \/ ParseReduce
    \/ ReducerReturn
    \/ ParseAccept

Spec == Init /\ [][Next]_vars

\* the loop of Graph::build has an iteration to take: GraphBuildStep is
\* enabled (every kernel has an order to be iterated in, and the step
\* changes the work list or the phase)
GraphBuildEnabled == phase = "graph" /\ build_stack # << >>

\* LrTable::build is one sequential call: once called, the loop of
\* Graph::build takes its next iteration as long as its work list holds
\* a state.  This is weak fairness of GraphBuildStep, WF_vars(GraphBuildStep),
\* with the enabling condition written out.
SpecBuild ==
    /\ Init /\ [][Next]_vars
    /\ ([]<>(~GraphBuildEnabled) \/ []<><<GraphBuildStep>>_vars)

(***************************************************************************)
(* Two calls of LrParser::parse over one table.  parse takes &self and     *)
(* &mut lexer: each call owns its locals (states, stack, cursor) and its   *)
(* token source, and reads the table through a shared reference.  The      *)
(* variables of the driver hold the call that is stepping, `peer` holds    *)
(* the other one; Switch hands the processor to the other call, so that    *)
(* the behaviours are the interleavings of the steps of the two calls.     *)
(***************************************************************************)
Driver ==
    [reducers |-> reducers, input |-> input, lexer |-> lexer,
     cursor |-> cursor, states |-> states, stack |-> stack,
     reducing |-> reducing, pc |-> pc, result |-> result, trace |-> trace]

\* two calls of parse polling one token source: the lexer stays where the
\* call that was stepping left it
Switch_shared_lexer ==
    /\ phase = "built"
    /\ pc # "idle"
    /\ peer' = Driver
    /\ reducers' = peer.reducers
    /\ input' = peer.input
    /\ lexer' = lexer
    /\ cursor' = peer.cursor
    /\ states' = peer.states
    /\ stack' = peer.stack
    /\ reducing' = peer.reducing
    /\ pc' = peer.pc
    /\ result' = peer.result
    /\ trace' = peer.trace
    /\ UNCHANGED << build_vars, intake, syntax, dfa_vars >>

Switch ==
    /\ phase = "built"
    /\ pc # "idle"
    /\ peer' = Driver
    /\ reducers' = peer.reducers
    /\ input' = peer.input
    /\ lexer' = peer.lexer
    /\ cursor' = peer.cursor
    /\ states' = peer.states
    /\ stack' = peer.stack
    /\ reducing' = peer.reducing
    /\ pc' = peer.pc
    /\ result' = peer.result
    /\ trace' = peer.trace
    /\ UNCHANGED << build_vars, intake, syntax, dfa_vars >>

PeerInputs(name) ==
    SeqsUpTo(TokenAlphabet(GrammarOf(name)), MaxPeerInputLen)
        \cup ScenarioInputs(name)

ParseStartPeer == ParseStartWith(PeerInputs(grammar))

InitConcurrent ==
    Init /\ grammar \in {"lr1", "ambiguous"} /\ K = 1 /\ rev = "core"

NextConcurrent ==
    \/ GraphBuildStep
    \/ FromGraphRow
    \/ ParseStartPeer
    \/ ParseLexerError
    \/ ParseUnknownSymbol
    \/ ParseNoAction
    \/ ParseShift
    \/ ParseReduce
    \/ ReducerReturn
    \/ ParseAccept
    \/ Switch

SpecConcurrent == InitConcurrent /\ [][NextConcurrent]_vars

(***************************************************************************)
(* The driver over the tables of the cyclic grammar, and of the            *)
(* reduce_reduce grammar for comparison.  The driver takes no Shift and no *)
(* Reduce once it has taken MaxSteps actions: the parses it has not ended  *)
(* by then are cut there.                                                  *)
(***************************************************************************)
MaxSteps == 14

StepsLeft == Len(trace) < MaxSteps

InitCyclic == InitOf({"cyclic", "reduce_reduce"})

NextCyclic ==
    \/ GraphBuildStep
    \/ FromGraphRow
    \/ ParseStart
    \/ ParseLexerError
    \/ ParseUnknownSymbol
    \/ ParseNoAction
    \/ StepsLeft /\ ParseShift
    \/ StepsLeft /\ ParseReduce
    \/ ReducerReturn
    \/ ParseAccept

SpecCyclic == InitCyclic /\ [][NextCyclic]_vars

(***************************************************************************)
(* Grammar intake: the declarations of symbols to a Grammar, and           *)
(* ConstGrammar::new.                                                      *)
(***************************************************************************)
\* the identifiers declared: two fresh ones and a sentinel's
DeclaredIds == {"x", "y", EOS}

\* the symbols handed to ConstGrammar::new
SymbolPool ==
    { Symbol_term(id) : id \in DeclaredIds }
        \cup { Symbol_nterm(id) : id \in DeclaredIds }
        \cup { Symbol_start }

\* Grammar::try_get_symbol
try_get_symbol(symbols, id) ==
    IF \E i \in DOMAIN symbols : symbols[i].id = id
    THEN symbols[CHOOSE i \in DOMAIN symbols :
                    /\ symbols[i].id = id
                    /\ \A j \in DOMAIN symbols : symbols[j].id = id => i <= j]
    ELSE NoSymbol

\* the body shared by add_terminal_symbol and add_non_terminal_symbol
add_symbol(sym) ==
    /\ intake.via = "Grammar"
    /\ intake.calls < MaxDeclarations
    /\ intake' =
         IF try_get_symbol(intake.symbols, sym.id) # NoSymbol
         THEN [intake EXCEPT !.kind = "SymbolWithSameId", !.id = sym.id,
                             !.calls = @ + 1]
         ELSE [intake EXCEPT !.kind = "Ok", !.id = None, !.calls = @ + 1,
                             !.symbols = Append(@, sym)]
    /\ UNCHANGED << build_vars, parse_vars, peer, syntax, dfa_vars >>

\* Grammar::add_terminal_symbol
add_terminal_symbol == \E id \in DeclaredIds : add_symbol(Symbol_term(id))

\* Grammar::add_non_terminal_symbol
add_non_terminal_symbol == \E id \in DeclaredIds : add_symbol(Symbol_nterm(id))

\* the identifiers rules are written with: "z" is never declared
RuleSymbolIds == {"x", "z"}

\* the rules declared: every LHS with an empty RHS, a RHS of one identifier
\* and the RHS x z
RulePool ==
    { RuleDef(lhs, rhs) :
        lhs \in RuleSymbolIds,
        rhs \in SeqsUpTo(RuleSymbolIds, 1) \cup { << "x", "z" >> } }

\* the identifiers of a rule, LHS first, in the order they are looked up
rule_ids(rule) == << rule.lhs >> \o rule.rhs

\* the first identifier of a rule that no symbol of `symbols` has, None
\* when there is none
first_unknown(symbols, rule) ==
    LET ids == rule_ids(rule)
        bad == { i \in DOMAIN ids : try_get_symbol(symbols, ids[i]) = NoSymbol }
    IN IF bad = {} THEN None
       ELSE ids[CHOOSE i \in bad : \A j \in bad : i <= j]

\* Grammar::add_rule: the first undeclared identifier is returned in
\* UnknownSymbol; else the rule is pushed, <eps> standing for an empty RHS
add_rule ==
    /\ intake.via = "Grammar"
    /\ intake.calls < MaxDeclarations
    /\ \E rule \in RulePool :
         intake' =
           IF first_unknown(intake.symbols, rule) # None
           THEN [intake EXCEPT !.kind = "UnknownSymbol",
                               !.id = first_unknown(intake.symbols, rule),
                               !.calls = @ + 1]
           ELSE [intake EXCEPT !.kind = "Ok", !.id = None, !.calls = @ + 1,
                               !.rules = Append(@,
                                   IF rule.rhs = << >>
                                   THEN RuleDef(rule.lhs, << EPS >>)
                                   ELSE rule)]
    /\ UNCHANGED << build_vars, parse_vars, peer, syntax, dfa_vars >>

\* ConstGrammar::new: the arrays are stored as given
ConstGrammar_new ==
    /\ intake.calls = 0
    /\ \E symbols \in SeqsUpTo(SymbolPool, MaxDeclarations),
          rules \in SeqsUpTo(RulePool, 1) :
         intake' = [via |-> "ConstGrammar", symbols |-> symbols,
                    rules |-> rules,
                    kind |-> "Ok", id |-> None, calls |-> 1]
    /\ UNCHANGED << build_vars, parse_vars, peer, syntax, dfa_vars >>

\* Grammar::iter_rules of a ConstGrammar, consumed by RuleSet::new at the
\* start of LrTable::build: SymbolSlice::sym panics on an identifier that
\* no symbol has
Grammar_iter_rules ==
    /\ intake.via = "ConstGrammar"
    /\ intake.kind = "Ok"
    /\ intake' =
         IF \E i \in DOMAIN intake.rules :
                first_unknown(intake.symbols, intake.rules[i]) # None
         THEN [intake EXCEPT !.kind = "panic",
                  !.id = first_unknown(intake.symbols,
                            intake.rules[CHOOSE i \in DOMAIN intake.rules :
                                first_unknown(intake.symbols, intake.rules[i]) # None])]
         ELSE [intake EXCEPT !.kind = "RuleSet"]
    /\ UNCHANGED << build_vars, parse_vars, peer, syntax, dfa_vars >>

InitIntake == Init /\ grammar = "lr0" /\ K = 0 /\ rev = "core"

NextIntake ==
    \/ add_terminal_symbol
    \/ add_non_terminal_symbol
    \/ add_rule
    \/ ConstGrammar_new
    \/ Grammar_iter_rules

SpecIntake == InitIntake /\ [][NextIntake]_vars

(***************************************************************************)
(* Preprocessing: a syntax written with identifiers is turned into rules   *)
(* of labelled symbols, the root rule getting <eos>.                       *)
(***************************************************************************)
\* the most times one syntax is run through the preprocessor
MaxPasses == 2
\* the longest right-hand side of the syntaxes enumerated
MaxRhsLen == 2

\* the identifiers the syntaxes are written with
SyntaxIds == {"root", "E", "n"}

\* the rules the syntaxes are made of
SyntaxRules ==
    { RuleDef(lhs, rhs) :
        lhs \in {"root", "E"},
        rhs \in SeqsUpTo(SyntaxIds, MaxRhsLen) \ { << >> } }

\* Syntax::is_non_terminal: some rule has the identifier as its LHS
Syntax_is_non_terminal(rules, id) ==
    \E i \in DOMAIN rules : rules[i].lhs = id

\* SymbolSet::from and its Index: the symbol an identifier is labelled as
SymbolSet_index(rules, id) ==
    IF Syntax_is_non_terminal(rules, id)
    THEN Symbol_nterm(id)
    ELSE Symbol_term(id)

\* transform_syntax of a SyntaxKernel (PrepSyntax::from in the core
\* revision): every RHS identifier becomes its symbol, and Symbol::EOS is
\* pushed on the RHS of rule 0
transform_syntax(rules) ==
    [i \in DOMAIN rules |->
        LET rhs == [j \in DOMAIN rules[i].rhs |->
                        SymbolSet_index(rules, rules[i].rhs[j])]
        IN [lhs |-> rules[i].lhs,
            rhs |-> IF i = 1 THEN Append(rhs, Symbol_eos) ELSE rhs]]

\* iter_symbol_identifiers: a preprocessed syntax read by the identifiers
\* of its symbols
symbol_identifiers(rules) ==
    [i \in DOMAIN rules |->
        RuleDef(rules[i].lhs,
                [j \in DOMAIN rules[i].rhs |-> rules[i].rhs[j].id])]

\* a syntax is written: one or two rules
Syntax_new ==
    /\ syntax.rules = << >>
    /\ \E rules \in SeqsUpTo(SyntaxRules, 2) \ { << >> } :
         syntax' = [rules |-> rules, passes |-> 0]
    /\ UNCHANGED << build_vars, parse_vars, peer, intake, dfa_vars >>

\* the syntax is preprocessed; a preprocessed syntax is handed back by the
\* identifiers of its symbols
Preprocess ==
    /\ syntax.rules # << >>
    /\ syntax.passes < MaxPasses
    /\ syntax' =
         [rules |-> transform_syntax(
                        IF syntax.passes = 0 THEN syntax.rules
                        ELSE symbol_identifiers(syntax.rules)),
          passes |-> syntax.passes + 1]
    /\ UNCHANGED << build_vars, parse_vars, peer, intake, dfa_vars >>

InitPreprocess == Init /\ grammar = "lr0" /\ K = 0 /\ rev = "core"

NextPreprocess ==
    \/ Syntax_new
    \/ Preprocess

SpecPreprocess == InitPreprocess /\ [][NextPreprocess]_vars

(***************************************************************************)
(* Character sets (dfa/charset.rs).  The chars are 0..MaxChar, MaxChar      *)
(* standing for char::MAX and 0 for the NUL char; the variants In and NotIn *)
(* are not made by the conversions below and are left out.                 *)
(***************************************************************************)
MaxChar == 4
Chars == 0..MaxChar
\* the `ch` of what holds no char
NoChar == MaxChar + 1

CharSet_of(tag, ch, of) == [tag |-> tag, ch |-> ch, sets |-> of]
CharSet_gte(ch) == CharSet_of("Gte", ch, << >>)
CharSet_lte(ch) == CharSet_of("Lte", ch, << >>)
CharSet_Epsilon == CharSet_of("Epsilon", NoChar, << >>)

\* dfa::Set::is_empty of CharSet, over the is_empty of each variant
RECURSIVE CharSet_is_empty(_)
CharSet_is_empty(s) ==
    CASE s.tag = "And" -> \E i \in DOMAIN s.sets : CharSet_is_empty(s.sets[i])
      [] s.tag = "Or" -> \A i \in DOMAIN s.sets : CharSet_is_empty(s.sets[i])
      [] s.tag = "Gt" -> s.ch = MaxChar
      [] s.tag = "Gte" -> TRUE
      [] s.tag = "Lt" -> s.ch = 0
      [] s.tag = "Lte" -> TRUE
      [] s.tag = "Eq" -> FALSE
      [] s.tag = "NotEq" -> FALSE
      [] s.tag = "All" -> FALSE
      [] s.tag = "Epsilon" -> TRUE

\* CharSet::contains, over the contains of each variant
RECURSIVE CharSet_contains(_, _)
CharSet_contains(s, c) ==
    CASE s.tag = "And" -> \A i \in DOMAIN s.sets : CharSet_contains(s.sets[i], c)
      [] s.tag = "Or" -> \E i \in DOMAIN s.sets : CharSet_contains(s.sets[i], c)
      [] s.tag = "Gt" -> c > s.ch
      [] s.tag = "Gte" -> c >= s.ch
      [] s.tag = "Lt" -> c < s.ch
      [] s.tag = "Lte" -> c <= s.ch
      [] s.tag = "Eq" -> c = s.ch
      [] s.tag = "NotEq" -> c # s.ch
      [] s.tag = "All" -> TRUE
      [] s.tag = "Epsilon" -> FALSE

\* From<And> for CharSet: an And that is_empty becomes Epsilon
CharSet_from_And(value) ==
    IF CharSet_is_empty(CharSet_of("And", NoChar, value))
    THEN CharSet_Epsilon
    ELSE CharSet_of("And", NoChar, value)

\* BitAnd for CharSet
CharSet_bitand(lhs, rhs) == CharSet_from_And(<< lhs, rhs >>)

\* From<RangeInclusive<char>> for CharSet
CharSet_from_RangeInclusive(start, end) ==
    CharSet_bitand(CharSet_gte(start), CharSet_lte(end))

\* CharSet::from(start..=end)
CharSet_from ==
    /\ ~charset.made
    /\ \E start \in Chars, end \in Chars :
         charset' = [made |-> TRUE, start |-> start, end |-> end,
                     set |-> CharSet_from_RangeInclusive(start, end),
                     asked |-> NoChar, answer |-> FALSE]
    /\ UNCHANGED << build_vars, parse_vars, peer, intake, syntax, lexing >>

\* at.contains(&ch)
CharSet_ask ==
    /\ charset.made
    /\ \E ch \in Chars :
         charset' = [charset EXCEPT !.asked = ch,
                                    !.answer = CharSet_contains(charset.set, ch)]
    /\ UNCHANGED << build_vars, parse_vars, peer, intake, syntax, lexing >>

InitCharSet == Init /\ grammar = "lr0" /\ K = 0 /\ rev = "core"

NextCharSet ==
    \/ CharSet_from
    \/ CharSet_ask

SpecCharSet == InitCharSet /\ [][NextCharSet]_vars

(***************************************************************************)
(* The lexer (lexer.rs): a table of states, each a function from the char  *)
(* read to an action or an error, run over a stream of chars.  One step is *)
(* one turn of the loop of Lexer::next.                                    *)
(***************************************************************************)
\* the longest stream a lexer is made over
MaxStreamLen == 2
LexStates == {0, 1}
LexChars == {"a", "b"}
NoLexState == Cardinality(LexStates)
NoLexChar == "<none>"

\* Action { kind, goto }; Err stands for the Err(..) a state may return
LexActions ==
    [kind : {"Reconsume", "Consume", "ConsumeAndReduce", "Skip"},
     goto : LexStates]
        \cup { [kind |-> "Err", goto |-> 0] }

\* Lexer::new over a table of states and a stream
Lexer_new ==
    /\ ~lexing.made
    /\ \E table \in [LexStates \X LexChars -> LexActions],
          stream \in SeqsUpTo(LexChars, MaxStreamLen) :
         lexing' = [made |-> TRUE, states |-> table, stream |-> stream,
                    state |-> 0, reconsume |-> NoLexChar, buffer |-> << >>,
                    pc |-> "idle", fn |-> NoLexState, returned |-> "none",
                    value |-> << >>, emitted_goto |-> NoLexState]
    /\ UNCHANGED << build_vars, parse_vars, peer, intake, syntax, charset >>

\* Lexer::next is called: `let state = self.states[self.state]`
Lexer_next_call ==
    /\ lexing.made
    /\ lexing.pc = "idle"
    /\ lexing' = [lexing EXCEPT !.pc = "loop", !.fn = lexing.state]
    /\ UNCHANGED << build_vars, parse_vars, peer, intake, syntax, charset >>

\* one turn of `while let Some(ch) = self.next_char()`: the char put back
\* if there is one, else the next of the stream; the state function taken
\* at the call is applied to it
Lexer_next_char ==
    /\ lexing.made
    /\ lexing.pc = "loop"
    /\ IF lexing.reconsume = NoLexChar /\ lexing.stream = << >>
       THEN lexing' = [lexing EXCEPT !.pc = "idle", !.returned = "end"]
       ELSE LET put_back == lexing.reconsume # NoLexChar
                ch == IF put_back THEN lexing.reconsume
                      ELSE Head(lexing.stream)
                rest == IF put_back THEN lexing.stream
                        ELSE Tail(lexing.stream)
                action == lexing.states[<< lexing.fn, ch >>]
                read == [lexing EXCEPT !.reconsume = NoLexChar,
                                       !.stream = rest,
                                       !.emitted_goto = NoLexState]
            IN lexing' =
                 CASE action.kind = "Err" ->
                        [read EXCEPT !.pc = "idle", !.returned = "err"]
                   [] action.kind = "Reconsume" ->
                        [read EXCEPT !.reconsume = ch, !.state = action.goto]
                   [] action.kind = "Consume" ->
                        [read EXCEPT !.buffer = Append(lexing.buffer, ch),
                                     !.state = action.goto]
                   [] action.kind = "ConsumeAndReduce" ->
                        [read EXCEPT !.buffer = << >>,
                                     !.value = Append(lexing.buffer, ch),
                                     !.pc = "idle",
                                     !.returned = "token",
                                     !.emitted_goto = action.goto]
                   [] action.kind = "Skip" ->
                        [read EXCEPT !.state = action.goto]
    /\ UNCHANGED << build_vars, parse_vars, peer, intake, syntax, charset >>

InitLexer == Init /\ grammar = "lr0" /\ K = 0 /\ rev = "core"

NextLexer ==
    \/ Lexer_new
    \/ Lexer_next_call
    \/ Lexer_next_char

SpecLexer == InitLexer /\ [][NextLexer]_vars

(***************************************************************************)
(* Properties.                                                             *)
(***************************************************************************)
AllItems(set) == set.kernel \cup Range(set.items)

\* the table builder has finished, with a table or with an error
BuildEnded == phase \in {"built", "failed"}

\* the terminals a state has an outgoing edge on
ShiftSymbols(id) ==
    { e[2] : e \in { x \in Range(edges) : x[1] = id /\ is_terminal(G, x[2]) } }

\* k = 1: the terminals a state shifts on that are also the lookahead of
\* one of its exhausted items
ShiftReduceLr1(set) ==
    ShiftSymbols(set.id) \cap
        { it.lookaheads[1] :
            it \in { x \in AllItems(set) :
                        is_exhausted(G, x) /\ x.lookaheads # << >> } }

\* k = 0: the terminals other than <eos> and <eps> a state shifts on,
\* when it also holds an exhausted item
ShiftReduceLr0(set) ==
    IF has_exhausted_items(G, set)
    THEN { t \in ShiftSymbols(set.id) : ~is_eos(G, t) /\ ~is_epsilon(G, t) }
    ELSE {}

\* the reducers of the parser tests: one AstNodeReducer per rule
TestReducers == [len |-> Len(G.rules), behaviour |-> "AstNodeReducer"]

ScenarioA == <<"1", "+", "1", "*", "0", "*", "1", "*", "1">>
ScenarioB == <<"n", "+", "n">>
ScenarioC == <<"n", ")">>

\* C1 (as claimed): with k = 1, when some state shifts on a terminal that
\* is also the lookahead of one of its exhausted items, the build fails
\* with ShiftReduceConflict for such a state and symbol; and in every row
\* built, the entry of a terminal edge is still the Shift of that edge.
C1_ConflictLr1Raised ==
    /\ (K = 1 /\ BuildEnded
          /\ \E i \in DOMAIN sets : ShiftReduceLr1(sets[i]) # {})
       => /\ built.kind = "ShiftReduceConflict"
          /\ built.symbol \in ShiftReduceLr1(sets[built.state + 1])
    /\ K = 1 =>
         \A i \in DOMAIN rows : \A e \in Range(edges) :
            (e[1] = i - 1 /\ is_terminal(G, e[2]))
                => rows[i].actions[e[2]] = Shift(e[3])

\* C2 (as claimed): with k = 0, when some state has an edge on a terminal
\* other than <eos> and <eps> and holds an exhausted item, the build fails
\* with ShiftReduceConflict instead of returning a table.
C2_ConflictLr0Raised ==
    (K = 0 /\ BuildEnded /\ \E i \in DOMAIN sets : ShiftReduceLr0(sets[i]) # {})
        => built.kind = "ShiftReduceConflict"

\* C3 (as claimed): the k = 0 build of the LR(1) fixture grammar fails
\* with ShiftReduceConflict on the symbol +.
C3_Lr1FixtureFailsUnderLr0 ==
    (grammar = "lr1" /\ K = 0 /\ BuildEnded)
        => (built.kind = "ShiftReduceConflict" /\ built.symbol = "+")

\* C4 (as claimed): for the LR(1) fixture grammar the k = 1 table builds
\* without error, and the parse of n + n with the test's reducers ends in
\* Accept.
C4_Lr1FixtureAccepts ==
    (grammar = "lr1" /\ K = 1)
        => /\ built.kind \in {"none", "Ok"}
           /\ (pc = "done" /\ input = ScenarioB /\ reducers = TestReducers)
                  => result.kind = "Ok"

\* C5: for the LR(0) fixture grammar the k = 0 table builds without
\* conflict, and the parse of 1 + 1 * 0 * 1 * 1 with the test's reducers
\* ends in Accept.
C5_Lr0FixtureAccepts ==
    (grammar = "lr0" /\ K = 0)
        => /\ built.kind \in {"none", "Ok"}
           /\ (pc = "done" /\ input = ScenarioA /\ reducers = TestReducers)
                  => (result.kind = "Ok" /\ trace[Len(trace)] = Accept)

C5_Witness ==
    /\ grammar = "lr0" /\ K = 0 /\ built.kind = "Ok"
    /\ pc = "done" /\ input = ScenarioA /\ reducers = TestReducers
    /\ result.kind = "Ok"

\* C6 (as claimed): whenever the driver accepts, the node it returns has
\* the symbol id <start>.
C6_AcceptedRootIsStart ==
    (pc = "done" /\ result.kind = "Ok") => result.node.symbol_id = START

\* the number of Reduce actions of the trace whose rule is 4 or 5
TerminalReductions ==
    Cardinality({ i \in DOMAIN trace :
                    trace[i].type = "Reduce" /\ trace[i].arg \in {4, 5} })

ScenarioADone ==
    /\ grammar = "lr0" /\ K = 0
    /\ pc = "done" /\ input = ScenarioA /\ reducers = TestReducers

\* C7 (as claimed): the trace of the Scenario A parse holds exactly six
\* Reduce actions whose rule is rule 4 or rule 5.
C7_SixTerminalReductions == ScenarioADone => TerminalReductions = 6

\* C7 (amended): the trace of the Scenario A parse holds exactly five
\* Reduce actions whose rule is rule 4 or rule 5, one per operand of
\* 1 + 1 * 0 * 1 * 1.
C7_FiveTerminalReductions == ScenarioADone => TerminalReductions = 5

C7_Witness == ScenarioADone /\ result.kind = "Ok" /\ TerminalReductions = 5

\* the state the start state reaches on a symbol
StateAfter(id, sym) ==
    (CHOOSE e \in Range(edges) : e[1] = id /\ e[2] = sym)[3]

\* C8 (as claimed): with the k = 1 table of the LR(1) fixture grammar and
\* the input n ), the driver fails with UnexpectedSymbol, got is ")",
\* expecting is a subset of {+, <eos>}, and the error is raised in the
\* state entered by the shift of the first n.
C8_UnexpectedClosingParen ==
    (grammar = "lr1" /\ K = 1 /\ pc = "done" /\ input = ScenarioC
        /\ reducers = TestReducers)
        => /\ result.kind = "UnexpectedSymbol"
           /\ result.got = ")"
           /\ result.expecting \subseteq {"+", EOS}
           /\ Last(states) = StateAfter(0, "n")

\* C9: whenever the table holds no action for the lookahead in the state
\* on top of the stack, the next step of the driver is the failure
\* UnexpectedSymbol whose got is the id of the lookahead (<eos> when the
\* lexer is exhausted) and whose expecting is exactly the set of terminals
\* of the grammar with an action in the row of that state.
C9_NoActionIsUnexpectedSymbol ==
    [][ (/\ pc = "loop"
         /\ cursor # LexerError
         /\ get_symbol_by_id(G, IF cursor = None THEN EOS ELSE cursor) # NoSymbol
         /\ rows[Last(states) + 1].actions[IF cursor = None THEN EOS ELSE cursor]
                = NoAction)
        => (/\ pc' = "done"
            /\ result'.kind = "UnexpectedSymbol"
            /\ result'.got = (IF cursor = None THEN EOS ELSE cursor)
            /\ result'.expecting =
                 { t \in iter_terminals(G) :
                     rows[Last(states) + 1].actions[t] # NoAction }) ]_vars

C9_Witness ==
    /\ pc = "done" /\ result.kind = "UnexpectedSymbol"
    /\ cursor \notin {None, LexerError}
    /\ rows[Last(states) + 1].actions[cursor] = NoAction
    /\ result.got = cursor
    /\ result.expecting # {}
    /\ result.expecting = Row_iter_terminals(rows[Last(states) + 1])

\* the lexer is exhausted and the row of the current state has no action
\* for <eos>
EndOfStreamWithoutAction ==
    /\ pc = "loop"
    /\ cursor = None
    /\ rows[Last(states) + 1].actions[EOS] = NoAction

C11_NeverPanics == pc = "done" => result.kind # "panic"

\* C12: the step that ends a parse with an error polls no token and leaves
\* no reducer call behind; a lexer error and a reducer failure are
\* returned as they are; and once parse has returned nothing of the call
\* changes any more (no token polled, no reducer invoked).
C12_FirstErrorAborts ==
    [][ /\ (pc = "done" => UNCHANGED parse_vars)
        /\ (pc # "done" /\ pc' = "done" /\ result'.kind # "Ok")
              => (lexer' = lexer /\ cursor' = cursor /\ reducing' = NoReducing)
        /\ (pc = "loop" /\ cursor = LexerError)
              => (pc' = "done" /\ result'.kind = "LexerError")
        /\ (pc = "reducer" /\ pc' = "done")
              => result'.kind \in {"Other", "UnexpectedSymbol"} ]_vars

C12_Witness ==
    /\ pc = "done" /\ result.kind \in {"Other", "LexerError"}
    /\ lexer # << >>
    /\ reducing = NoReducing

\* both calls of parse have returned, and they were given the same tokens
SameInputDone ==
    /\ pc = "done" /\ peer.pc = "done"
    /\ input = peer.input

RowChoices ==
    LET set == sets[Len(rows) + 1]
    IN { from_transition(G, K, set, transition_edges(edges, set.id), ko) :
           ko \in Orders(set.kernel) }

\* C14 (as claimed): the table does not depend on the order the items of a
\* kernel are iterated in: for every state the row builder returns the
\* same row under every iteration order.
C14_TableIndependentOfKernelOrder ==
    phase = "table" => Cardinality(RowChoices) = 1

RECURSIVE run_alone(_)
run_alone(c) ==
    LET state == Last(c.states)
        la == IF c.cursor = None THEN EOS ELSE c.cursor
        action == Table_action(state, la)
        stop(outcome, tr) == [result |-> outcome, trace |-> tr]
    IN IF c.cursor = LexerError
       THEN stop(ParseOutcome("LexerError", None, {}, NoNode), c.trace)
       ELSE IF try_get_symbol_by_id(G, la) = NoSymbol
       THEN stop(ParseOutcome("UnknownSymbol", c.cursor, {}, NoNode), c.trace)
       ELSE IF action = NoAction
       THEN stop(ParseOutcome("UnexpectedSymbol", la,
                              Table_iter_terminals(state), NoNode), c.trace)
       ELSE IF action.type = "Shift"
       THEN run_alone(
              IF is_eos(G, la)
              THEN [c EXCEPT !.states = Append(c.states, action.arg),
                             !.trace = Append(c.trace, action)]
              ELSE [c EXCEPT !.states = Append(c.states, action.arg),
                             !.trace = Append(c.trace, action),
                             !.stack = Append(c.stack, Node(c.cursor)),
                             !.cursor = Lexer_next(c.lexer).item,
                             !.lexer = Lexer_next(c.lexer).rest])
       ELSE IF action.type = "Accept"
       THEN IF c.stack = << >>
            THEN stop(ParseOutcome("panic", None, {}, NoNode),
                      Append(c.trace, action))
            ELSE stop(ParseOutcome("Ok", None, {}, Last(c.stack)),
                      Append(c.trace, action))
       ELSE LET rule == borrow_rule(G, action.arg)
                consume == Len(rule.rhs)
                keep == IF Len(c.stack) > consume
                        THEN Len(c.stack) - consume ELSE 0
                drained == SubSeq(c.stack, keep + 1, Len(c.stack))
                bad == Mismatch(drained, rule.rhs)
                kept == SubSeq(c.states, 1,
                          IF Len(c.states) > consume
                          THEN Len(c.states) - consume ELSE 0)
                tr == Append(c.trace, action)
            IN IF bad # 0
               THEN stop(ParseOutcome("UnexpectedSymbol",
                           drained[bad].symbol_id, {rule.rhs[bad]}, NoNode), tr)
               ELSE IF kept = << >>
               THEN stop(ParseOutcome("panic", None, {}, NoNode), tr)
               ELSE IF Table_goto(Last(kept), rule.lhs) = NoState
               THEN stop(ParseOutcome("UnexpectedSymbol", rule.lhs,
                           Table_iter_non_terminals(Last(kept)), NoNode), tr)
               ELSE run_alone(
                      [c EXCEPT !.states =
                                    Append(kept, Table_goto(Last(kept), rule.lhs)),
                                !.trace = tr,
                                !.stack = Append(SubSeq(c.stack, 1, keep),
                                    [symbol_id |-> rule.lhs,
                                     call |-> ReduceCount(tr)])])

\* LrParser::parse of a token sequence, alone
parse_alone(tokens) ==
    run_alone([states |-> << 0 >>, stack |-> << >>, trace |-> << >>,
               cursor |-> Lexer_next(tokens).item,
               lexer |-> Lexer_next(tokens).rest])

\* a call of parse has returned what it returns when it runs alone
AsAlone(d) ==
    (d.pc = "done" /\ d.reducers = TestReducers)
        => /\ d.result = parse_alone(d.input).result
           /\ d.trace = parse_alone(d.input).trace

\* C16: under every interleaving of the steps of two calls of parse over
\* one table, each with its own token source, each call returns what it
\* returns when run alone (checked for the calls whose reducers are the
\* deterministic AstNodeReducer), and no step of a call writes the table.
C16_ConcurrentDriversAreIndependent ==
    /\ [](AsAlone(Driver) /\ AsAlone(peer))
    /\ [][phase = "built" => rows' = rows]_vars

C16_Witness ==
    /\ pc = "done" /\ peer.pc = "done"
    /\ reducers = TestReducers /\ peer.reducers = TestReducers
    /\ input = ScenarioB /\ peer.input = << "n" >>
    /\ result.kind = "Ok" /\ peer.result.kind = "Ok"
    /\ result = parse_alone(input).result

\* C18: when a reducer call starts, no other reducer call is in progress,
\* and every node it receives that a reducer produced was returned by a
\* call that started, and so (calls being one at a time) returned, before.
C18_ProducersReturnBeforeConsumers ==
    [][ pc' = "reducer" /\ pc # "reducer"
        => /\ reducing = NoReducing
           /\ reducing'.call = ReduceCount(trace) + 1
           /\ \A i \in DOMAIN reducing'.drained :
                reducing'.drained[i].call < reducing'.call ]_vars

C18_Witness ==
    /\ pc = "reducer"
    /\ \E i \in DOMAIN reducing.drained :
         /\ reducing.drained[i].call > 0
         /\ reducing.drained[i].call < reducing.call

\* C19: with a k other than 0 and 1 the build of every grammar ends with
\* UnsupportedAlgorithm, and no row and no table is ever returned.
C19_UnsupportedAlgorithm ==
    K \notin {0, 1}
        => /\ phase # "built"
           /\ rows = << >>
           /\ BuildEnded => built.kind = "UnsupportedAlgorithm"

C19_Witness ==
    /\ K \notin {0, 1} /\ phase = "failed"
    /\ built.kind = "UnsupportedAlgorithm"

\* the rules of the Reduce actions of a trace, last reduction first
RECURSIVE reduced_rules_reversed(_)
reduced_rules_reversed(actions) ==
    IF actions = << >> THEN << >>
    ELSE reduced_rules_reversed(Tail(actions))
           \o (IF Head(actions).type = "Reduce"
               THEN << Head(actions).arg >> ELSE << >>)

NoDerivation == << None >>

\* the sentential form reached from `form` by rewriting, for each rule of
\* `rs` in turn, the rightmost non-terminal of the form, which has to be
\* the LHS of the rule, by the RHS of the rule
RECURSIVE derive_rightmost(_, _)
derive_rightmost(form, rs) ==
    IF rs = << >> \/ form = NoDerivation THEN form
    ELSE LET nts == { i \in DOMAIN form : ~is_terminal(G, form[i]) }
             rule == G.rules[Head(rs) + 1]
         IN IF nts = {} THEN NoDerivation
            ELSE LET i == CHOOSE k \in nts : \A j \in nts : j <= k
                 IN IF form[i] # rule.lhs THEN NoDerivation
                    ELSE derive_rightmost(
                           SubSeq(form, 1, i - 1) \o rule.rhs
                               \o SubSeq(form, i + 1, Len(form)),
                           Tail(rs))

Accepted == pc = "done" /\ result.kind = "Ok"

HasDuplicateId(symbols) ==
    \E i, j \in DOMAIN symbols : i < j /\ symbols[i].id = symbols[j].id

\* C20 (as claimed): no grammar holding two symbols with the same
\* identifier can be constructed: every declaration of an identifier that
\* is already declared (a sentinel's included) fails.
C20_NoDuplicateSymbolIds == ~HasDuplicateId(intake.symbols)

\* every identifier of every rule of the grammar is the identifier of one
\* of its symbols
RulesNameDeclaredSymbols ==
    \A i \in DOMAIN intake.rules :
        first_unknown(intake.symbols, intake.rules[i]) = None

\* C21 (as claimed): a rule naming an identifier that was never declared
\* is rejected with UnknownSymbol carrying that identifier, never with a
\* panic; a grammar under construction gets no such rule; and no rule set
\* (hence no item set and no table) is made of such a rule.
C21_UnknownSymbolRejected ==
    /\ intake.kind # "panic"
    /\ intake.via = "Grammar" => RulesNameDeclaredSymbols
    /\ intake.kind = "UnknownSymbol"
          => try_get_symbol(intake.symbols, intake.id) = NoSymbol
    /\ intake.kind = "RuleSet" => RulesNameDeclaredSymbols

\* the <eos> symbols a RHS ends in
RECURSIVE trailing_eos(_)
trailing_eos(rhs) ==
    IF rhs # << >> /\ rhs[Len(rhs)] = Symbol_eos
    THEN 1 + trailing_eos(SubSeq(rhs, 1, Len(rhs) - 1))
    ELSE 0

RECURSIVE nullable_from(_, _)
nullable_from(g, N) ==
    LET N2 == N \cup
            { borrow_rule(g, r).lhs :
                r \in { q \in RuleIds(g) :
                          \A j \in DOMAIN borrow_rule(g, q).rhs :
                              \/ is_epsilon(g, borrow_rule(g, q).rhs[j])
                              \/ borrow_rule(g, q).rhs[j] \in N } }
    IN IF N2 = N THEN N ELSE nullable_from(g, N2)

Nullable(g) == nullable_from(g, {})

StringNullable(g, str) ==
    \A j \in DOMAIN str : is_epsilon(g, str[j]) \/ str[j] \in Nullable(g)

\* FIRST of a string of symbols, F giving FIRST of every non-terminal
RECURSIVE first_of_string(_, _, _)
first_of_string(g, F, str) ==
    IF str = << >> THEN {}
    ELSE IF is_epsilon(g, Head(str)) THEN first_of_string(g, F, Tail(str))
    ELSE IF is_terminal(g, Head(str)) THEN { Head(str) }
    ELSE F[Head(str)] \cup
            (IF Head(str) \in Nullable(g)
             THEN first_of_string(g, F, Tail(str)) ELSE {})

RECURSIVE first_sets_from(_, _)
first_sets_from(g, F) ==
    LET F2 == [X \in SymbolIds(g) |->
                F[X] \cup UNION { first_of_string(g, F, borrow_rule(g, r).rhs) :
                                    r \in { q \in RuleIds(g) :
                                              borrow_rule(g, q).lhs = X } }]
    IN IF F2 = F THEN F ELSE first_sets_from(g, F2)

\* FIRST of every non-terminal
FirstSets(g) == first_sets_from(g, [X \in SymbolIds(g) |-> {}])

\* FIRST(str a): the terminals a string derived from str, followed by the
\* lookaheads la, begins with
FirstOfStringThen(g, str, la) ==
    first_of_string(g, FirstSets(g), str)
        \cup (IF StringNullable(g, str) THEN la ELSE {})

\* what follows the symbol after the dot of an item
beta(g, item) ==
    SubSeq(borrow_rule(g, item.rule).rhs, item.position + 2,
           Len(borrow_rule(g, item.rule).rhs))

\* the lookaheads the closure items of a rule carry in an item set
ClosureLookaheads(set, r) ==
    UNION { Range(it.lookaheads) :
              it \in { x \in Range(set.items) : x.rule = r } }

\* the union of FIRST(beta a) over the items of the set with the LHS of
\* rule r after the dot
SourceLookaheads(set, r) ==
    UNION { FirstOfStringThen(G, beta(G, src), Range(src.lookaheads)) :
              src \in { x \in AllItems(set) :
                          symbol(G, x) = borrow_rule(G, r).lhs } }

\* C23: with k = 1, in every closed item set the lookaheads of the closure
\* items X -> . gamma are exactly the union of FIRST(beta a) over the items
\* A -> alpha . X beta, a of the set.
C23_ClosureLookaheadsAreFirstBetaA ==
    K = 1 =>
        \A i \in DOMAIN sets : \A it \in Range(sets[i].items) :
            ClosureLookaheads(sets[i], it.rule) = SourceLookaheads(sets[i], it.rule)

\* the item sets Graph::build has closed so far
ClosedSets == { sets[i] : i \in { j \in DOMAIN sets : (j - 1) \notin Range(build_stack) } }

\* the non-terminals after the dot of some item of a set
ExpectedSymbols(set) ==
    { symbol(G, it) : it \in { x \in AllItems(set) : is_symbol_non_terminal(G, x) } }

\* C24: after closure, with k = 0 and with k = 1, for every item of the
\* set whose symbol after the dot is a non-terminal X, the set holds an item
\* X -> . gamma for every rule X -> gamma of the grammar.
C24_ClosureComplete ==
    K \in {0, 1} =>
        \A set \in ClosedSets : \A X \in ExpectedSymbols(set) :
            \A r \in Range(iter_by_symbol(G, X)) :
                \E it \in AllItems(set) : it.rule = r /\ it.position = 0

\* the occurrences of non-terminals in the right-hand sides: the item with
\* the dot in front of each
NonTerminalOccurrences(g) ==
    { it \in { at(g, r, pos) :
                r \in RuleIds(g), pos \in 0..Len(g.symbols) } \ {NoItem} :
        is_symbol_non_terminal(g, it) }

\* FIRST(beta) is in FOLLOW(S) for the occurrence of S the item has after
\* its dot, beta being non-empty
FirstOfBetaFollows(g, it) ==
    beta(g, it) # << >> =>
        first_of_string(g, FirstSets(g), beta(g, it)) \subseteq follow(g, symbol(g, it))

\* FOLLOW(A) is in FOLLOW(S) for an occurrence of S at the end of a rule
\* of A
FollowOfLhsFollows(g, it) ==
    beta(g, it) = << >> =>
        follow(g, borrow_rule(g, it.rule).lhs) \subseteq follow(g, symbol(g, it))

\* C25: in the grammar the closure takes its lookaheads from, for every
\* rule A -> alpha S beta with beta non-empty every terminal of FIRST(beta)
\* is in FOLLOW(S), whatever beta begins with, and for every rule
\* A -> alpha S, FOLLOW(A) is a subset of FOLLOW(S).
C25_FollowContainsFirstOfBeta ==
    (K = 1 /\ ClosedSets # {}) =>
        \A it \in NonTerminalOccurrences(G) :
            FirstOfBetaFollows(G, it) /\ FollowOfLhsFollows(G, it)

\* the symbols reached from a set of symbols through chains of leftmost
\* RHS symbols
RECURSIVE leftmost_from(_, _)
leftmost_from(g, R) ==
    LET R2 == R \cup { borrow_rule(g, r).rhs[1] :
                         r \in { q \in RuleIds(g) :
                                   /\ borrow_rule(g, q).lhs \in R
                                   /\ borrow_rule(g, q).rhs # << >> } }
    IN IF R2 = R THEN R ELSE leftmost_from(g, R2)

\* the terminals a symbol reaches through such chains
LeftmostTerminals(g, sym) ==
    { id \in leftmost_from(g, {sym}) : is_terminal(g, id) }

\* C26: in the grammar the closure takes its lookaheads from, FIRST(N) of
\* every non-terminal N is exactly the set of terminals N reaches through
\* chains of leftmost RHS symbols and holds no non-terminal, and FIRST(t) of
\* a terminal t is {t}.
C26_FirstIsLeftmostTerminals ==
    (K = 1 /\ ClosedSets # {}) =>
        \A id \in SymbolIds(G) :
            /\ ~first_result(G, id).panic
            /\ first(G, id) = LeftmostTerminals(G, id)
            /\ first(G, id) \subseteq iter_terminals(G)
            /\ is_terminal(G, id) => first(G, id) = {id}

\* the lr1 fixture is closed with k = 1: FIRST(E) is { (, n, + } as in
\* test_002_first_set
C26_Witness ==
    /\ K = 1 /\ ClosedSets # {} /\ grammar = "lr1"
    /\ first(G, "E") = {"(", "n", "+"}
    /\ first(G, "T") = {"n", "+"}

\* C27: advancing a non-exhausted item of a closed item set yields the item
\* of the same rule with the dot one position further and the same
\* lookahead tuple; advancing an exhausted item yields nothing.
C27_NextPreservesLookaheads ==
    \A set \in ClosedSets : \A it \in AllItems(set) :
        Item_next(rev, G, it) =
            IF is_exhausted(G, it) THEN NoItem
            ELSE [rule |-> it.rule, position |-> it.position + 1,
                  lookaheads |-> it.lookaheads]

\* the pairs of exhausted items of two different rules that apply to the
\* same terminal: any two under k = 0, two with the same lookahead under
\* k = 1
ReduceReduce(set) ==
    { pair \in { << x, y >> :
                   x \in { it \in AllItems(set) : is_exhausted(G, it) },
                   y \in { it \in AllItems(set) : is_exhausted(G, it) } } :
        /\ pair[1].rule # pair[2].rule
        /\ K = 1 => /\ pair[1].lookaheads # << >>
                    /\ pair[1].lookaheads = pair[2].lookaheads }

\* C28: when a state holds exhausted items of two different rules that
\* apply to the same terminal, table construction fails instead of
\* returning a table that keeps one of the two reductions.
C28_ReduceReduceConflictRaised ==
    (BuildEnded /\ K \in {0, 1}
        /\ \E i \in DOMAIN sets : ReduceReduce(sets[i]) # {})
        => built.kind # "Ok"

\* the rules of a grammar declared with an empty RHS
EmptyRules(g) == { r \in RuleIds(g) : borrow_rule(g, r).rhs = << EPS >> }

\* the states in which the LHS of rule r is expected
StatesExpecting(r) ==
    { i \in DOMAIN sets :
        \E it \in AllItems(sets[i]) : symbol(G, it) = borrow_rule(G, r).lhs }

\* the table holds a Reduce of rule r in every state where its LHS is
\* expected
ReducesWhereExpected(r) ==
    \A i \in StatesExpecting(r) :
        \E t \in iter_terminals(G) : rows[i].actions[t] = Reduce(r)

\* C29: for the grammar with the rule B -> (empty), the token sequence a,
\* whose derivation S -> A B, A -> a, B -> (empty) uses that rule, is
\* accepted, and the built table holds a Reduce of that rule in the states
\* where B is expected.
C29_EmptyRuleReduced ==
    (grammar = "sequence" /\ K \in {0, 1}) =>
        /\ (pc = "done" /\ input = << "a" >> /\ reducers = TestReducers)
              => result.kind = "Ok"
        /\ phase = "built" => \A r \in EmptyRules(G) : ReducesWhereExpected(r)

\* C30: with k = 1, every exhausted item of every state of the graph,
\* kernel or closure, carries exactly one lookahead symbol and that symbol
\* is a terminal.
C30_ExhaustedItemsHaveOneLookahead ==
    K = 1 =>
        \A i \in DOMAIN sets : \A it \in AllItems(sets[i]) :
            is_exhausted(G, it) =>
                /\ Len(it.lookaheads) = 1
                /\ is_terminal(G, it.lookaheads[1])

\* C31: whenever the reducer of rule r is invoked it receives exactly as
\* many nodes as r has RHS symbols, and the symbol id of the i-th node is
\* the i-th RHS symbol of r.
C31_ReducerReceivesRhsNodes ==
    pc = "reducer" =>
        /\ Len(reducing.drained) = Len(borrow_rule(G, reducing.rule).rhs)
        /\ \A i \in DOMAIN reducing.drained :
              reducing.drained[i].symbol_id = borrow_rule(G, reducing.rule).rhs[i]

\* a reducer is invoked for a rule of three RHS symbols
C31_Witness ==
    /\ pc = "reducer"
    /\ Len(borrow_rule(G, reducing.rule).rhs) = 3
    /\ Len(reducing.drained) = 3

\* the step that invokes a reducer leaves `states` without the goto state:
\* it only drops the states of the RHS
NoGotoBeforeReducer ==
    (pc = "loop" /\ pc' = "reducer") =>
        Len(states') = Len(states) - Len(borrow_rule(G, reducing'.rule).rhs)

\* a node is pushed while a reducer call is in progress only when the call
\* has returned a node of the LHS
NoAstBeforeCheck ==
    (pc = "reducer" /\ Len(stack') > Len(stack)) =>
        /\ pc' = "loop"
        /\ Last(stack').symbol_id = borrow_rule(G, reducing.rule).lhs

\* C32: on Reduce(r), neither the goto state nor the reduced AST is pushed
\* on a stack until the reducer of r has returned successfully and the
\* symbol id of its output has been checked equal to the LHS of r.
C32_PushAfterReducerReturns ==
    [][ NoGotoBeforeReducer /\ NoAstBeforeCheck ]_vars

\* C33: at the start of every iteration of the driver loop `states` holds
\* exactly one more element than `stack`, and the node Accept returns was
\* the only one on `stack`.
C33_StatesOneMoreThanStack ==
    /\ pc = "loop" => Len(states) = Len(stack) + 1
    /\ Accepted => (stack = << >> /\ Len(states) = 2)

\* an input of at least two tokens has been accepted
C33_Witness ==
    /\ Accepted /\ Len(input) >= 2
    /\ stack = << >> /\ Len(states) = 2

\* the number of Reduce actions at the end of a sequence of actions: the
\* reductions made since the last token was consumed
RECURSIVE trailing_reduces(_)
trailing_reduces(actions) ==
    IF actions # << >> /\ Last(actions).type = "Reduce"
    THEN 1 + trailing_reduces(Pop(actions))
    ELSE 0

\* C34: the driver never makes so many Reduce steps without consuming a
\* token that it has been twice in the same configuration, from which it
\* would reduce forever.  A reduction of a non-empty RHS never makes
\* `states` longer, and `states` is no longer than the input plus two:
\* without passing twice through the same `states` the state on top takes
\* each state of the table at most once at each length.
C34_NoEndlessReduce ==
    pc \in {"loop", "reducer"} =>
        trailing_reduces(trace) <= (Len(input) + 2) * Len(sets)

\* the ids of the states of the graph
StateIds == 0..(Len(sets) - 1)

\* C35: at every step of the build, hence in the finished graph, the
\* source and the target of every edge are ids of states of the graph, and
\* state 0 is the only state whose kernel is the start item
\* <start> -> . S <eos>.
C35_EdgesClosedAndUniqueStart ==
    /\ \A e \in Range(edges) : e[1] \in StateIds /\ e[3] \in StateIds
    /\ \A i \in DOMAIN sets :
          ItemSet_eq(sets[i], start_item_set(G, K)) <=> i = 1

\* a finished graph with edges that lead to a state reached before
C35_Witness ==
    /\ phase = "built"
    /\ \E i, j \in DOMAIN edges : i # j /\ edges[i][3] = edges[j][3]

\* C36: graph construction terminates, for k = 0 and k = 1 and for the
\* left-recursive grammars too: the loop of Graph::build eventually finds
\* its work list empty.
C36_GraphBuildTerminates == <>(phase # "graph")

\* the graphs of the two left-recursive fixtures are finished, with k = 0
\* and with k = 1
C36_Witness ==
    /\ phase = "table" /\ build_stack = << >>
    /\ grammar = "lr1" /\ K = 1
    /\ Len(sets) > 5

\* no two states of the graph have equal kernels
NoEqualKernels ==
    \A i, j \in DOMAIN sets : sets[i].kernel = sets[j].kernel => i = j

\* a step keeps every state of the graph, with its id and its kernel
IdsStable ==
    \A i \in DOMAIN sets :
        /\ i \in DOMAIN sets'
        /\ sets'[i].id = sets[i].id
        /\ sets'[i].kernel = sets[i].kernel

\* C37: the graph never holds two states with equal kernels (a successor
\* kernel equal to the kernel of an existing state, closed or not, is not
\* inserted), and the id of a state never changes after its insertion.
C37_KernelsUniqueIdsStable ==
    [][ NoEqualKernels' /\ IdsStable ]_vars

\* a finished graph with an edge that leads back to a state closed before
\* the edge was made, its source or an earlier state
C37_Witness ==
    /\ phase = "built"
    /\ \E e \in Range(edges) :
          e[3] <= e[1] /\ sets[e[3] + 1].items # << >>

\* Graph::iter_transitions of yalp-core: one transition per state, in the
\* order of the states, with the edges that leave it
iter_transitions_core(ss, es) ==
    [ i \in 1..Len(ss) |->
        [from |-> ss[i].id, edges |-> transition_edges(es, ss[i].id)] ]

\* Graph::iter_transitions of src/src/lr/transition.rs: the edges grouped
\* by runs of equal source (Itertools::group_by), one transition per run
RECURSIVE iter_transitions_src(_)
iter_transitions_src(es) ==
    IF es = << >> THEN << >>
    ELSE LET from == Head(es)[1]
             n == CHOOSE n \in 1..Len(es) :
                      /\ \A i \in 1..n : es[i][1] = from
                      /\ n = Len(es) \/ es[n + 1][1] # from
         IN << [from |-> from,
                edges |-> [ i \in 1..n |->
                             [symbol |-> es[i][2], to |-> es[i][3]] ]] >>
            \o iter_transitions_src(SubSeq(es, n + 1, Len(es)))

\* the transitions LrTable::from_graph maps to rows, one row each
iter_transitions ==
    IF rev = "src" THEN iter_transitions_src(edges)
    ELSE iter_transitions_core(sets, edges)

\* C38: the table of a built grammar has exactly one row per state of the
\* graph, the states without outgoing edge included, and row i is made
\* from the state whose id is i.
C38_OneRowPerState ==
    phase = "built" =>
        /\ Len(iter_transitions) = Len(sets)
        /\ \A i \in DOMAIN iter_transitions :
              /\ iter_transitions[i].from = i - 1
              /\ iter_transitions[i].edges
                   = transition_edges(edges, i - 1)

\* C39: a character set made from the inclusive range start..=end contains
\* exactly the chars ch with start <= ch <= end.
C39_RangeContainsExactlyItsChars ==
    (charset.made /\ charset.asked # NoChar) =>
        (charset.answer
            <=> (charset.start <= charset.asked /\ charset.asked <= charset.end))

\* C40: after the lexer has emitted a token through a consume-and-reduce
\* action, the state whose function is applied to the next char is the
\* goto state of that action.
C40_GotoAppliedAfterToken ==
    ( /\ lexing.made
      /\ lexing.pc = "loop"
      /\ lexing.emitted_goto # NoLexState
      /\ lexing.stream # << >> )
        => lexing.fn = lexing.emitted_goto
====
